---- MODULE Spec2Model ----
(***************************************************************************)
(* The AgentSession handler of internal/brain/agent.go: the session        *)
(* controller, the tool dispatch closure handed to the engine, and the     *)
(* receive goroutine, sharing the toolsQueue map under a.mu.               *)
(*                                                                         *)
(* A critical section (Lock; one map operation; Unlock) is one atomic      *)
(* step.  The map read of line 133 takes no lock: it is a step of its own, *)
(* and when another dispatch closure stands at a map write at that moment  *)
(* the two accesses are unordered (a data race), whose outcomes are the    *)
(* right channel, a missed key (the nil channel) or the runtime's fatal    *)
(* "concurrent map read and map write".                                    *)
(***************************************************************************)
EXTENDS Integers, Sequences, FiniteSets, TLC

\* ------------------------------------------------------------------ bounds
MaxCalls == 2       \* tool invocations the engine makes in one run
MaxFrames == 3      \* frames the receive goroutine reads in one session
MaxEvents == 1      \* events the engine yields in one run
MaxTools == 2       \* tools of the agent whose declarations are built
MaxKeys == 2        \* entries of the PASETO_KEYS list
MaxHandshakes == 2  \* DeviceHandshake requests served
MaxQueries == 2     \* classifyWithCache calls
MaxTicks == 3       \* times the clock of the cache advances

\* ------------------------------------------------------------------ values
Calls == 1..MaxCalls
NoID == 0                     \* requestID not generated yet
NilChan == 0                  \* the nil channel (zero value of a map miss)
BogusID == MaxCalls + 1       \* a request id no dispatch generated
None == [kind |-> "nil", id |-> NoID, name |-> "", payload |-> "", content |-> <<>>]

\* JSON texts a peer puts in ToolCallResponse.output
Payloads == {"{\"x\":1}", "oops"}
ObjectPayloads == {"{\"x\":1}"}

\* json.Unmarshal([]byte(s), &output) into a map[string]any
UnmarshalOK(s) == s \in ObjectPayloads
UnmarshalValue(s) == IF s = "{\"x\":1}" THEN [x |-> 1] ELSE [x |-> 0]

\* tools declared by the agent of the run request
ToolNames == {"echo", "grep"}
Inputs == {"{\"x\":1}"}

\* JSON schema texts of a tool: none, an object without properties, an object
\* with a property, and a text that is no JSON
BareObject == "{\"type\":\"object\"}"
WithProperties == "{\"type\":\"object\",\"properties\":{\"x\":{}}}"
SchemaTexts == {"", BareObject, WithProperties, "oops"}
Tool(n, i, o) == [name |-> n, input_schema |-> i, output_schema |-> o]

\* first frames a peer can send (agents as the list of each agent's tools)
RunRequest(a, u) == [kind |-> "RunRequest", agents |-> a, user_message |-> u]
RunRequests ==
    { RunRequest(<< <<Tool("echo", "", "")>> >>, "hi"),
      RunRequest(<< <<Tool("echo", "oops", "")>> >>, "hi"),
      RunRequest(<<>>, "hi"),
      RunRequest(<<>>, ""), RunRequest(<< <<>> >>, "") }

\* run requests of one agent with up to MaxTools tools, over all schema texts
ToolLists ==
    UNION { [1..n -> { Tool("echo", i, o) : i \in SchemaTexts, o \in SchemaTexts \ {BareObject} }] :
              n \in 0..MaxTools }
SchemaRunRequests == { RunRequest(<< ts >>, "hi") : ts \in ToolLists }
\* a run request of one agent with two tools of different names
TwoToolRequest == RunRequest(<< <<Tool("echo", "", ""), Tool("grep", "", "")>> >>, "hi")
OtherFirstFrames ==
    { [kind |-> k, agents |-> <<>>, user_message |-> ""] :
        k \in {"ToolCallResponse", "SessionEnd"} }
RecvError == [kind |-> "error", agents |-> <<>>, user_message |-> ""]
NoFrame == [kind |-> "none", agents |-> <<>>, user_message |-> ""]

\* ------------------------------------------------ authentication values
Procedures == {"AgentSession", "DeviceHandshake"}

\* a v2.local token: the key it was encrypted under and the exp of its claims
Token(k, e) == [key |-> k, exp |-> e]
NoToken == Token("", 0)       \* the empty string
Blank == Token(" ", 0)        \* white space only
Junk == Token("junk", 0)      \* a text that is no token of any key
Tokens == { Token(k, e) : k \in {"k1", "k2", "k3"}, e \in 1..2 } \cup {Junk}

\* the Authorization header: with or without "Bearer ", then a token, white
\* space or nothing (no header: Get gives "")
Header(p, b) == [prefix |-> p, body |-> b]
Headers == { Header(p, b) : p \in {"", "Bearer "}, b \in Tokens \cup {NoToken, Blank} }
Conn(proc, h) == [procedure |-> proc, authorization |-> h]
Conns == { Conn(proc, h) : proc \in Procedures, h \in Headers }

\* PASETO_KEYS split at the commas: hex keys, an empty entry, a text that is
\* no hex; and the clock
RawKeys == {"k1", "k2", "", "zz"}
KeyLists == UNION { [1..n -> RawKeys] : n \in 1..MaxKeys }
Env(ks, t) == [keys |-> ks, now |-> t]
Envs == { Env(ks, t) : ks \in KeyLists, t \in 1..2 }

\* the two registrations of the handler in cmd/serve
Registrations == { << "validate" >>, << "auth", "validate" >> }

\* ------------------------------------------------------ handshake values
Handshakes == 1..MaxHandshakes

\* header and field texts as sequences of characters
Fingerprints == { <<>>, << "f" >> }
NonceTexts == { <<>>, << "n" >> }
\* X-Timestamp: none, a text that is no number, and decimal numbers around
\* the clock
TimestampTexts ==
    { <<>>, << "x" >>, << "1", "9" >>, << "2", "0" >>, << "5", "0" >>,
      << "8", "0" >>, << "8", "1" >> }
\* time.Now().Unix() while the requests are served
Now == 50

\* hex of the HMAC-SHA256 of a message under a key; no X-Signature header
Sig(k, m) == [key |-> k, msg |-> m]
NoSig == Sig("none", <<>>)
\* the values of the environment variables that hold the secret: unset, the
\* hex of a key, a text that is no hex
SecretTexts == {"", "s1", "zz"}
HmacEnvs ==
    [ {"HMAC_SECRET_KEY", "FOCUSD_HMAC_SECRET_KEY"} -> SecretTexts ]

HandshakeRequest(f, t, n, g) ==
    [fingerprint |-> f, timestamp |-> t, nonce |-> n, signature |-> g]
\* the signatures a client can put on a request: none, that of its own
\* fingerprint, timestamp and nonce under a key, that of another text
HandshakeRequests ==
    UNION { { HandshakeRequest(f, t, n, g) :
                g \in {NoSig} \cup { Sig(k, m) : k \in {"", "s1", "s2"},
                                                 m \in { f \o t \o n, << "o" >> } } } :
            f \in Fingerprints, t \in TimestampTexts, n \in NonceTexts }
NoRequest == HandshakeRequest(<<>>, <<>>, <<>>, NoSig)
NoUser == 0

\* ------------------------------------------------ classification cache
Queries == 1..MaxQueries
\* prompts and context data of the classification requests
Prompts == {"p1", "p2"}
Contexts == {"d1"}
\* what callGemini returns as text (a reply of fences only trims to "")
GeminiTexts == {"", "r1", "r2"}
\* no row of prompt_history for a key
NoRow == [response |-> "", created_at |-> 0 - 1, expires_at |-> 0 - 1]
NoQuery == [prompt |-> "", context |-> ""]
NoAnswer == [kind |-> "none", text |-> ""]

\* content parts of one engine event (<<>>: the event has no content)
EventParts == { <<>>, <<"a", "", "b">>, <<"c">> }

VARIABLES
    cpc,          \* where the AgentSession handler stands
    cerr,         \* what the handler returned: "" (nil) or the error
    message,      \* the first frame (line 37)
    decls,        \* the functiontool.Config of every tool built (lines 80-106)
    toolsQueue,   \* a.toolsQueue: the request ids that have a channel
    chanBuf,      \* the buffer (capacity 1) of each request id's channel
    pc,           \* where each dispatch closure call stands
    requestID,    \* its requestID (line 114)
    toolName,     \* the t.GetName() its closure captured
    called,       \* the tool (agent, index) whose closure the engine entered
    waitCh,       \* the channel operand its select evaluated (line 133)
    response,     \* what it took from the channel
    result,       \* what it returned to the engine
    nret,         \* how many times it returned
    outbox,       \* frames sent on the stream, in order
    rpc,          \* where the receive goroutine stands
    rmsg,         \* the tool call response it is handling
    rstale,       \* that response's id was unknown or resolved when read
    sawEnd,       \* the receive goroutine has read a session-end frame
    rerr,         \* the receive goroutine's Receive has returned an error
    nread,        \* frames read by the receive goroutine
    nloops,       \* receive goroutines started
    nruns,        \* times r.Run was invoked
    nevents,      \* events the engine yielded
    emitted,      \* the content parts of each of them, in order
    responseText, \* the collected text parts (line 258)
    lost,         \* ids whose response was dropped while the call was pending
    delivered,    \* ids of the responses written into a channel, in order
    crashed,      \* the runtime threw a fatal error
    conn,         \* the connection: its procedure and Authorization header
    env,          \* the server's environment: PASETO_KEYS and the clock
    interceptors, \* the interceptors the handler was registered with
    aerr,         \* the error an interceptor answered the connection with
    hmacEnv,      \* the environment variables that hold the HMAC secret
    nonces,       \* the rows of the nonce table, in order of creation
    users,        \* the rows of the user table: the fingerprint of each id
    hreq,         \* the request of each DeviceHandshake call
    hpc,          \* where each DeviceHandshake call stands
    hverr,        \* the error verifyHMAC returned to it ("" for nil)
    hres,         \* what the call answered: "" (none yet), "ok" or the error
    huser,        \* the id of the user it found or created
    cache,        \* the prompt_history table: the row of each prompt hash
    clock,        \* time.Now().Unix() of the classification service
    nticks,       \* times the clock advanced
    qpc,          \* where each classifyWithCache call stands
    qreq,         \* its prompt and context data
    qlerr,        \* its getFromCache returned an error
    qgem,         \* times it called the model
    qres          \* what it returned

vars == << cpc, cerr, message, decls, toolsQueue, chanBuf, pc, requestID, toolName, called,
           waitCh, response, result, nret, outbox, rpc, rmsg, rstale, sawEnd, rerr,
           nread,
           nloops, nruns, nevents, emitted, responseText, lost, delivered,
           crashed, conn, env, interceptors, aerr, hmacEnv, nonces, users,
           hreq, hpc, hverr, hres, huser, cache, clock, nticks, qpc, qreq,
           qlerr, qgem, qres >>

ctrlVars == << cpc, cerr, message, decls, outbox, nloops, nruns, nevents, emitted,
              responseText >>
callVars == << pc, requestID, toolName, called, waitCh, response, result, nret >>
loopVars == << rpc, rmsg, rstale, sawEnd, rerr, nread, lost, delivered >>
tableVars == << toolsQueue, chanBuf >>
authVars == << conn, env, interceptors, aerr >>
hsVars == << hmacEnv, nonces, users, hreq, hpc, hverr, hres, huser >>
cacheVars == << cache, clock, nticks, qpc, qreq, qlerr, qgem, qres >>
srvVars == << authVars, hsVars, cacheVars >>

NoResult == [kind |-> "none", output |-> [x |-> 0]]
\* no closure entered
NotCalled == << 0, 0 >>

\* the hash of prompt + ":" + the JSON of the context data (lines 672-679),
\* a value of its own for every pair
generateCacheKey(prompt, context) == << prompt, ":", context >>
CacheKeys == { generateCacheKey(p, d) : p \in Prompts, d \in Contexts }

\* no classifyWithCache call and an empty prompt_history table
CacheIdle ==
    /\ cache = [k \in CacheKeys |-> NoRow]
    /\ clock = 0
    /\ nticks = 0
    /\ qpc = [q \in Queries |-> "idle"]
    /\ qreq = [q \in Queries |-> NoQuery]
    /\ qlerr = [q \in Queries |-> FALSE]
    /\ qgem = [q \in Queries |-> 0]
    /\ qres = [q \in Queries |-> NoAnswer]

\* no DeviceHandshake call, the tables empty, the secret set the way
\* service.go reads it
HandshakeIdle ==
    /\ hmacEnv = [v \in {"HMAC_SECRET_KEY", "FOCUSD_HMAC_SECRET_KEY"} |->
                    IF v = "HMAC_SECRET_KEY" THEN "s1" ELSE ""]
    /\ nonces = <<>>
    /\ users = <<>>
    /\ hreq = [h \in Handshakes |-> NoRequest]
    /\ hpc = [h \in Handshakes |-> "idle"]
    /\ hverr = [h \in Handshakes |-> ""]
    /\ hres = [h \in Handshakes |-> ""]
    /\ huser = [h \in Handshakes |-> NoUser]

Init ==
    /\ cpc = "receive"
    /\ cerr = ""
    /\ message = NoFrame
    /\ decls = <<>>
    /\ toolsQueue = {}
    /\ chanBuf = [i \in Calls |-> <<>>]
    /\ pc = [c \in Calls |-> "idle"]
    /\ requestID = [c \in Calls |-> NoID]
    /\ toolName = [c \in Calls |-> ""]
    /\ called = [c \in Calls |-> NotCalled]
    /\ waitCh = [c \in Calls |-> NilChan]
    /\ response = [c \in Calls |-> None]
    /\ result = [c \in Calls |-> NoResult]
    /\ nret = [c \in Calls |-> 0]
    /\ outbox = <<>>
    /\ rpc = "notStarted"
    /\ rmsg = None
    /\ rstale = FALSE
    /\ sawEnd = FALSE
    /\ rerr = FALSE
    /\ nread = 0
    /\ nloops = 0
    /\ nruns = 0
    /\ nevents = 0
    /\ emitted = <<>>
    /\ responseText = <<>>
    /\ lost = {}
    /\ delivered = <<>>
    /\ crashed = FALSE
    /\ conn = Conn("AgentSession", Header("Bearer ", Token("k1", 2)))
    /\ env = Env(<< "k1" >>, 1)
    /\ interceptors = << "auth", "validate" >>
    /\ aerr = ""
    /\ HandshakeIdle
    /\ CacheIdle

\* ------------------------------------------------------- session controller

\* a check that lets every received frame pass (message != nil)
IsAnyFrame(m) == TRUE

\* message.GetRunRequest() != nil (line 43)
IsRunRequest(m) == m.kind = "RunRequest"

\* the handler returns err ("": nil)
Return(err) == /\ cpc' = "returned"
               /\ cerr' = err

\* lines 37-46: the first Receive and the run-request check
ReceiveInitial ==
    /\ ~crashed
    /\ UNCHANGED srvVars
    /\ cpc = "receive"
    /\ \E m \in RunRequests \cup OtherFirstFrames \cup {RecvError} :
         /\ message' = m
         /\ IF m.kind = "error" THEN Return("receive failed")
            ELSE IF ~IsRunRequest(m) THEN Return("missing run request")
            ELSE /\ cpc' = "setup"
                 /\ cerr' = cerr
    /\ UNCHANGED << decls, outbox, nloops, nruns, nevents, emitted, responseText >>
    /\ UNCHANGED << callVars, loopVars, tableVars, crashed >>

\* json.Unmarshal([]byte(s), &schema) into a jsonschema.Schema
SchemaParses(s) == s \in {BareObject, WithProperties}
ParseSchema(s) ==
    [type |-> "object", properties |-> IF s = WithProperties THEN {"x"} ELSE {}]
\* &jsonschema.Schema{} and the nil *jsonschema.Schema
EmptySchema == [type |-> "", properties |-> {}]
NilSchema == [type |-> "nil", properties |-> {}]

\* an input schema left unset when the tool has none
InputSchemaOfUnset(t) ==
    IF t.input_schema # "" /\ ParseSchema(t.input_schema).properties # {}
    THEN ParseSchema(t.input_schema)
    ELSE NilSchema

\* lines 85-99: fntoolcfg.InputSchema
InputSchemaOf(t) ==
    IF t.input_schema # ""
    THEN IF Cardinality(ParseSchema(t.input_schema).properties) > 0
         THEN ParseSchema(t.input_schema)
         ELSE EmptySchema
    ELSE EmptySchema

\* lines 100-106: fntoolcfg.OutputSchema, set only for a non-empty text
OutputSchemaOf(t) ==
    IF t.output_schema # "" THEN ParseSchema(t.output_schema) ELSE NilSchema

\* lines 80-106: the functiontool.Config built for tool t
Declaration(t) ==
    [name |-> t.name, InputSchema |-> InputSchemaOf(t), OutputSchema |-> OutputSchemaOf(t)]

\* lines 85-105: the error a tool's schema texts make the handler return
InputSchemaError == "failed to unmarshal input schema"
OutputSchemaError == "Failed to unmarshal output schema"
ToolError(t) ==
    IF t.input_schema # "" /\ ~SchemaParses(t.input_schema) THEN InputSchemaError
    ELSE IF t.output_schema # "" /\ ~SchemaParses(t.output_schema) THEN OutputSchemaError
    ELSE ""

\* lines 72, 79: the tools of the request in the order of the two range loops
RECURSIVE AllTools(_)
AllTools(agents) ==
    IF agents = <<>> THEN <<>> ELSE Head(agents) \o AllTools(Tail(agents))

\* the error of the first tool, in that order, that has one
RECURSIVE FirstError(_)
FirstError(ts) ==
    IF ts = <<>> THEN ""
    ELSE IF ToolError(Head(ts)) # "" THEN ToolError(Head(ts))
    ELSE FirstError(Tail(ts))

\* lines 48-173: the API key, the model, one sub-agent per agent of the request
\* with one function tool per tool; each of these can fail and return
Setup ==
    /\ ~crashed
    /\ UNCHANGED srvVars
    /\ cpc = "setup"
    /\ \E ok \in BOOLEAN :
         LET ts == AllTools(message.agents) IN
         IF ~ok THEN Return("setup failed") /\ decls' = decls
         ELSE IF FirstError(ts) # "" THEN Return(FirstError(ts)) /\ decls' = decls
         ELSE /\ cpc' = "go"
              /\ cerr' = cerr
              /\ decls' = [i \in 1..Len(ts) |-> Declaration(ts[i])]
    /\ UNCHANGED << message, outbox, nloops, nruns, nevents, emitted, responseText >>
    /\ UNCHANGED << callVars, loopVars, tableVars, crashed >>

\* a handler that goes on without the go statement
StartReceiveLoopSkipped ==
    /\ ~crashed
    /\ UNCHANGED srvVars
    /\ cpc = "go"
    /\ cpc' = "runner"
    /\ UNCHANGED << cerr, message, decls, outbox, nloops, nruns, nevents, emitted, responseText >>
    /\ UNCHANGED << callVars, loopVars, tableVars, crashed >>

\* lines 175-207: go func() { for { ... } }()
StartReceiveLoop ==
    /\ ~crashed
    /\ UNCHANGED srvVars
    /\ cpc = "go"
    /\ cpc' = "runner"
    /\ rpc' = "recv"
    /\ nloops' = nloops + 1
    /\ UNCHANGED << cerr, message, decls, outbox, nruns, nevents, emitted, responseText >>
    /\ UNCHANGED << callVars, rmsg, rstale, sawEnd, rerr, nread, lost, delivered, tableVars, crashed >>

\* lines 209-259: root agent, runner, session; then r.Run is entered
CreateRunner ==
    /\ ~crashed
    /\ UNCHANGED srvVars
    /\ cpc = "runner"
    /\ \E ok \in BOOLEAN :
         IF ok THEN cpc' = "run" /\ cerr' = cerr /\ nruns' = nruns + 1
         ELSE Return("failed to create runner") /\ nruns' = nruns
    /\ UNCHANGED << message, decls, outbox, nloops, nevents, emitted, responseText >>
    /\ UNCHANGED << callVars, loopVars, tableVars, crashed >>

\* ------------------------------------------------------------------ frames
ToolCallRequest(id, name, input) ==
    [kind |-> "ToolCallRequest", id |-> id, name |-> name, payload |-> input,
     content |-> <<>>]
ToolCallResponse(id, output) ==
    [kind |-> "ToolCallResponse", id |-> id, name |-> "", payload |-> output,
     content |-> <<>>]
RunResponse(text) ==
    [kind |-> "RunResponse", id |-> NoID, name |-> "", payload |-> "",
     content |-> text]
SessionEndAck ==
    [kind |-> "SessionEndAck", id |-> NoID, name |-> "", payload |-> "true",
     content |-> <<>>]
SessionEnd ==
    [kind |-> "SessionEnd", id |-> NoID, name |-> "", payload |-> "",
     content |-> <<>>]
StrayRunRequest ==
    [kind |-> "RunRequest", id |-> NoID, name |-> "", payload |-> "",
     content |-> <<>>]
\* a frame of the tool-call-response case whose GetToolCallResponse() is nil
NilToolCallResponse ==
    [kind |-> "NilToolCallResponse", id |-> NoID, name |-> "", payload |-> "",
     content |-> <<>>]

Sent(kind) == { i \in 1..Len(outbox) : outbox[i].kind = kind }
SentIDs == { outbox[i].id : i \in Sent("ToolCallRequest") }

\* ------------------------------------------------------------------ engine
\* (external: r.Run of the ADK runner; it calls the tool closures, yields
\* events and errors, and ends; it yields and ends between tool calls)
InFlight == { c \in Calls : pc[c] \notin {"idle", "returned"} }
\* the uuid.New() of line 114: a value no earlier call drew
NewUUID == Cardinality({ d \in Calls : requestID[d] # NoID }) + 1

\* a closure that reads a loop variable shared by all iterations: the last
\* tool of the agent
CapturedLast(agents, i, j) == agents[i][Len(agents[i])]

\* lines 79, 108, 121: the t of the iteration that made the closure of tool j
\* of agent i, which the closure captures
Captured(agents, i, j) == agents[i][j]

\* lines 109-114: the engine enters a tool closure; the input is marshalled
\* and the request id drawn
Invoke(c) ==
    /\ ~crashed
    /\ UNCHANGED srvVars
    /\ cpc = "run"
    /\ pc[c] = "idle"
    /\ \A d \in Calls : d < c => pc[d] # "idle"
    /\ \E i \in 1..Len(message.agents) :
         \E j \in 1..Len(message.agents[i]) :
            /\ message.agents[i][j].name \in ToolNames
            /\ called' = [called EXCEPT ![c] = << i, j >>]
            /\ toolName' = [toolName EXCEPT ![c] = Captured(message.agents, i, j).name]
    /\ requestID' = [requestID EXCEPT ![c] = NewUUID]
    /\ pc' = [pc EXCEPT ![c] = "send"]
    /\ UNCHANGED << waitCh, response, result, nret >>
    /\ UNCHANGED << ctrlVars, loopVars, tableVars, crashed >>

\* a collection that puts the text of a part in front of the text so far
RECURSIVE CollectPartsInFront(_, _)
CollectPartsInFront(text, parts) ==
    IF parts = <<>> THEN text
    ELSE CollectPartsInFront(IF Head(parts) # "" THEN << Head(parts) >> \o text ELSE text,
                             Tail(parts))

\* lines 266-273: the text parts of one event, the empty ones skipped
\* (responseText as the sequence of the texts concatenated so far)
RECURSIVE CollectParts(_, _)
CollectParts(text, parts) ==
    IF parts = <<>> THEN text
    ELSE CollectParts(IF Head(parts) # "" THEN Append(text, Head(parts)) ELSE text,
                      Tail(parts))

\* events of one run: one more in a run whose request declares no tool
EventLimit == IF AllTools(message.agents) = <<>> THEN MaxEvents + 1 ELSE MaxEvents

\* lines 259-274, one iteration with err == nil
EngineEvent ==
    /\ ~crashed
    /\ UNCHANGED srvVars
    /\ cpc = "run"
    /\ InFlight = {}
    /\ nevents < EventLimit
    /\ nevents' = nevents + 1
    /\ \E parts \in EventParts :
         /\ responseText' = CollectParts(responseText, parts)
         /\ emitted' = Append(emitted, parts)
    /\ UNCHANGED << cpc, cerr, message, decls, outbox, nloops, nruns >>
    /\ UNCHANGED << callVars, loopVars, tableVars, crashed >>

\* lines 260-263 with the collected text sent before the error is returned
EngineErrorAfterSend ==
    /\ ~crashed
    /\ UNCHANGED srvVars
    /\ cpc = "run"
    /\ InFlight = {}
    /\ outbox' = Append(outbox, [kind |-> "RunResponse", id |-> NoID, name |-> "",
                                  payload |-> "", content |-> responseText])
    /\ Return("error during agent run")
    /\ UNCHANGED << message, decls, nloops, nruns, nevents, emitted, responseText >>
    /\ UNCHANGED << callVars, loopVars, tableVars, crashed >>

\* lines 260-263: the iteration that yields an error
EngineError ==
    /\ ~crashed
    /\ UNCHANGED srvVars
    /\ cpc = "run"
    /\ InFlight = {}
    /\ Return("error during agent run")
    /\ UNCHANGED << message, decls, outbox, nloops, nruns, nevents, emitted, responseText >>
    /\ UNCHANGED << callVars, loopVars, tableVars, crashed >>

\* an engine whose run ends while tool closures are still running
EngineDoneEarly ==
    /\ ~crashed
    /\ UNCHANGED srvVars
    /\ cpc = "run"
    /\ cpc' = "sendRunResponse"
    /\ UNCHANGED << cerr, message, decls, outbox, nloops, nruns, nevents, emitted, responseText >>
    /\ UNCHANGED << callVars, loopVars, tableVars, crashed >>

\* the range loop of line 259 ends
EngineDone ==
    /\ ~crashed
    /\ UNCHANGED srvVars
    /\ cpc = "run"
    /\ InFlight = {}
    /\ cpc' = "sendRunResponse"
    /\ UNCHANGED << cerr, message, decls, outbox, nloops, nruns, nevents, emitted, responseText >>
    /\ UNCHANGED << callVars, loopVars, tableVars, crashed >>

\* lines 279-288 with the error of stream.Send ignored
SendRunResponseIgnoringError ==
    /\ ~crashed
    /\ UNCHANGED srvVars
    /\ cpc = "sendRunResponse"
    /\ \E ok \in BOOLEAN :
         outbox' = IF ok THEN Append(outbox, RunResponse(responseText)) ELSE outbox
    /\ cpc' = "sendSessionEndAck"
    /\ UNCHANGED << cerr, message, decls, nloops, nruns, nevents, emitted, responseText >>
    /\ UNCHANGED << callVars, loopVars, tableVars, crashed >>

\* lines 279-288
SendRunResponse ==
    /\ ~crashed
    /\ UNCHANGED srvVars
    /\ cpc = "sendRunResponse"
    /\ \E ok \in BOOLEAN :
         IF ok
         THEN /\ outbox' = Append(outbox, RunResponse(responseText))
              /\ cpc' = "sendSessionEndAck"
              /\ cerr' = cerr
         ELSE /\ outbox' = outbox
              /\ Return("failed to send run response")
    /\ UNCHANGED << message, decls, nloops, nruns, nevents, emitted, responseText >>
    /\ UNCHANGED << callVars, loopVars, tableVars, crashed >>

\* lines 292-305
SendSessionEndAck ==
    /\ ~crashed
    /\ UNCHANGED srvVars
    /\ cpc = "sendSessionEndAck"
    /\ \E ok \in BOOLEAN :
         IF ok
         THEN /\ outbox' = Append(outbox, SessionEndAck)
              /\ Return("")
         ELSE /\ outbox' = outbox
              /\ Return("failed to send session end ack")
    /\ UNCHANGED << message, decls, nloops, nruns, nevents, emitted, responseText >>
    /\ UNCHANGED << callVars, loopVars, tableVars, crashed >>

\* the steps that read or write a.toolsQueue: the insert (line 130), the read
\* of the select's operand (line 133), the two deletes (lines 136, 152) and
\* the lookup of the receive goroutine (line 195)
TableAccess(step) ==
    step \in {"register", "evalchan", "cleanupResponse", "cleanupTimeout", "lookup"}
TableWrite(step) == step \in {"register", "cleanupResponse", "cleanupTimeout"}

\* the steps between a.mu.Lock() and a.mu.Unlock(): lines 129-131, 135-137,
\* 151-153 and 194-196
UnderMu(step) ==
    step \in {"register", "cleanupResponse", "cleanupTimeout", "lookup"}

\* a receive goroutine that unlocks only after its channel send
MuHeldAtDeliver(step) == step = "deliver"

\* a.mu is held at a step a task can rest at: every Lock is followed by its
\* Unlock with one map operation in between, so at none
MuHeldAt(step) == FALSE

\* a.mu.Lock() returns: no other task rests with the mutex held
MuFree == ~MuHeldAt(rpc) /\ \A c \in Calls : ~MuHeldAt(pc[c])

\* --------------------------------------------------- tool dispatch closure
\* the closure returns (output, err) to the engine
ReturnCall(c, kind, output) ==
    /\ pc' = [pc EXCEPT ![c] = "returned"]
    /\ result' = [result EXCEPT ![c] = [kind |-> kind, output |-> output]]
    /\ nret' = [nret EXCEPT ![c] = @ + 1]

\* a closure that registers before it sends and leaves the entry behind when
\* the send fails
SendToolCallRequestRegistered(c) ==
    /\ ~crashed
    /\ UNCHANGED srvVars
    /\ pc[c] = "send"
    /\ \E ok \in BOOLEAN, input \in Inputs :
         IF ok
         THEN /\ outbox' = Append(outbox, ToolCallRequest(requestID[c], toolName[c], input))
              /\ pc' = [pc EXCEPT ![c] = "register"]
              /\ UNCHANGED << result, nret, toolsQueue >>
         ELSE /\ outbox' = outbox
              /\ toolsQueue' = toolsQueue \cup {requestID[c]}
              /\ ReturnCall(c, "failed to send tool call request", NoResult.output)
    /\ UNCHANGED << requestID, toolName, called, waitCh, response >>
    /\ UNCHANGED << cpc, cerr, message, decls, nloops, nruns, nevents, emitted, responseText >>
    /\ UNCHANGED << loopVars, chanBuf, crashed >>

\* a closure that goes on to register and wait after a failed send
SendToolCallRequestWaiting(c) ==
    /\ ~crashed
    /\ UNCHANGED srvVars
    /\ pc[c] = "send"
    /\ \E ok \in BOOLEAN, input \in Inputs :
         /\ outbox' = IF ok THEN Append(outbox, ToolCallRequest(requestID[c], toolName[c], input))
                      ELSE outbox
         /\ pc' = [pc EXCEPT ![c] = "register"]
    /\ UNCHANGED << requestID, toolName, called, waitCh, response, result, nret >>
    /\ UNCHANGED << cpc, cerr, message, decls, nloops, nruns, nevents, emitted, responseText >>
    /\ UNCHANGED << loopVars, tableVars, crashed >>

\* lines 117-127: stream.Send of the tool call request
SendToolCallRequest(c) ==
    /\ ~crashed
    /\ UNCHANGED srvVars
    /\ pc[c] = "send"
    /\ \E ok \in BOOLEAN, input \in Inputs :
         IF ok
         THEN /\ outbox' = Append(outbox, ToolCallRequest(requestID[c], toolName[c], input))
              /\ pc' = [pc EXCEPT ![c] = "register"]
              /\ UNCHANGED << result, nret >>
         ELSE /\ outbox' = outbox
              /\ ReturnCall(c, "failed to send tool call request", NoResult.output)
    /\ UNCHANGED << requestID, toolName, called, waitCh, response >>
    /\ UNCHANGED << cpc, cerr, message, decls, nloops, nruns, nevents, emitted, responseText >>
    /\ UNCHANGED << loopVars, tableVars, crashed >>

\* lines 129-131: a.toolsQueue[requestID] = make(chan ..., 1), under a.mu
Register(c) ==
    /\ ~crashed
    /\ UNCHANGED srvVars
    /\ MuFree
    /\ pc[c] = "register"
    /\ toolsQueue' = toolsQueue \cup {requestID[c]}
    /\ chanBuf' = [chanBuf EXCEPT ![requestID[c]] = <<>>]
    /\ pc' = [pc EXCEPT ![c] = "evalchan"]
    /\ UNCHANGED << requestID, toolName, called, waitCh, response, result, nret >>
    /\ UNCHANGED << ctrlVars, loopVars, crashed >>

\* another closure stands at a write of the map (insert or delete): with the
\* read of line 133 holding no lock, the two accesses are unordered
MapWriters(c) ==
    { d \in Calls \ {c} : pc[d] \in {"register", "cleanupResponse", "cleanupTimeout"} }

\* a key shared by every closure instead of the call's own
ChanKeyFirst(c) == requestID[1]

\* line 133: the key of the map read, the closure's own requestID
ChanKey(c) == requestID[c]

\* line 133, the operand of the receive case: a.toolsQueue[requestID] is read
\* without a.mu when the select is entered
EvalChan(c) ==
    /\ ~crashed
    /\ UNCHANGED srvVars
    /\ pc[c] = "evalchan"
    /\ \/ /\ waitCh' = [waitCh EXCEPT ![c] =
                          IF ChanKey(c) \in toolsQueue THEN ChanKey(c) ELSE NilChan]
          /\ pc' = [pc EXCEPT ![c] = "select"]
          /\ crashed' = crashed
       \/ /\ MapWriters(c) # {}
          /\ waitCh' = [waitCh EXCEPT ![c] = NilChan]
          /\ pc' = [pc EXCEPT ![c] = "select"]
          /\ crashed' = crashed
       \/ /\ MapWriters(c) # {}
          /\ crashed' = TRUE
          /\ UNCHANGED << pc, waitCh >>
    /\ UNCHANGED << requestID, toolName, called, response, result, nret >>
    /\ UNCHANGED << ctrlVars, loopVars, tableVars >>

\* line 133: case response := <-ch
SelectResponse(c) ==
    /\ ~crashed
    /\ UNCHANGED srvVars
    /\ pc[c] = "select"
    /\ waitCh[c] # NilChan
    /\ chanBuf[waitCh[c]] # <<>>
    /\ response' = [response EXCEPT ![c] = Head(chanBuf[waitCh[c]])]
    /\ chanBuf' = [chanBuf EXCEPT ![waitCh[c]] = Tail(@)]
    /\ pc' = [pc EXCEPT ![c] = "cleanupResponse"]
    /\ UNCHANGED << requestID, toolName, called, waitCh, result, nret, toolsQueue >>
    /\ UNCHANGED << ctrlVars, loopVars, crashed >>

\* a timeout case that sends the request a second time
SelectTimeoutResending(c) ==
    /\ ~crashed
    /\ UNCHANGED srvVars
    /\ pc[c] = "select"
    /\ pc' = [pc EXCEPT ![c] = "cleanupTimeout"]
    /\ outbox' = Append(outbox, ToolCallRequest(requestID[c], toolName[c], "{\"x\":1}"))
    /\ UNCHANGED << requestID, toolName, called, waitCh, response, result, nret >>
    /\ UNCHANGED << cpc, cerr, message, decls, nloops, nruns, nevents, emitted, responseText >>
    /\ UNCHANGED << loopVars, tableVars, crashed >>

\* line 149: case <-time.After(3 * time.Minute)
SelectTimeout(c) ==
    /\ ~crashed
    /\ UNCHANGED srvVars
    /\ pc[c] = "select"
    /\ pc' = [pc EXCEPT ![c] = "cleanupTimeout"]
    /\ UNCHANGED << requestID, toolName, called, waitCh, response, result, nret >>
    /\ UNCHANGED << ctrlVars, loopVars, tableVars, crashed >>

\* a cleanup that leaves the entry in the map
DeleteNothing(q, id) == q

\* delete(a.toolsQueue, requestID), lines 136 and 152
Delete(q, id) == q \ {id}

\* a closure that returns success whatever it took
DecodeKindLenient(r) == "ok"

\* lines 139-148: what the closure returns for the response it took
DecodeKind(r) ==
    IF r = None THEN "no tool call response received"
    ELSE IF ~UnmarshalOK(r.payload) THEN "failed to unmarshal tool call response"
    ELSE "ok"
DecodeOutput(r) ==
    IF r # None /\ UnmarshalOK(r.payload) THEN UnmarshalValue(r.payload)
    ELSE NoResult.output

\* lines 135-148: delete(a.toolsQueue, requestID) under a.mu, then decode
CleanupResponse(c) ==
    /\ ~crashed
    /\ UNCHANGED srvVars
    /\ MuFree
    /\ pc[c] = "cleanupResponse"
    /\ toolsQueue' = Delete(toolsQueue, requestID[c])
    /\ ReturnCall(c, DecodeKind(response[c]), DecodeOutput(response[c]))
    /\ UNCHANGED << requestID, toolName, called, waitCh, response, chanBuf >>
    /\ UNCHANGED << ctrlVars, loopVars, crashed >>

\* a timeout case that returns the error without deleting the entry
CleanupTimeoutLeaking(c) ==
    /\ ~crashed
    /\ UNCHANGED srvVars
    /\ pc[c] = "cleanupTimeout"
    /\ ReturnCall(c, "tool call response timeout after 3 minutes", NoResult.output)
    /\ UNCHANGED << requestID, toolName, called, waitCh, response, tableVars >>
    /\ UNCHANGED << ctrlVars, loopVars, crashed >>

\* lines 151-156: delete(a.toolsQueue, requestID) under a.mu, then the error
CleanupTimeout(c) ==
    /\ ~crashed
    /\ UNCHANGED srvVars
    /\ MuFree
    /\ pc[c] = "cleanupTimeout"
    /\ toolsQueue' = Delete(toolsQueue, requestID[c])
    /\ ReturnCall(c, "tool call response timeout after 3 minutes", NoResult.output)
    /\ UNCHANGED << requestID, toolName, called, waitCh, response, chanBuf >>
    /\ UNCHANGED << ctrlVars, loopVars, crashed >>

\* ------------------------------------------------------- receive goroutine
\* calls whose request was sent and that have not left their select
Pending == { c \in Calls : pc[c] \in {"register", "evalchan", "select"} }
PendingIDs == { requestID[c] : c \in Pending }

\* what the peer can put on the stream: a response to a request it was sent
\* (again, too), a response with an id of its own, or another kind of frame
PeerFrames ==
    { ToolCallResponse(i, p) : i \in SentIDs, p \in Payloads }
      \cup { ToolCallResponse(BogusID, "{\"x\":1}"), SessionEnd, StrayRunRequest,
             NilToolCallResponse }

\* a Receive error that also empties the table of pending calls
LoopReceiveErrorCancelling ==
    /\ ~crashed
    /\ UNCHANGED srvVars
    /\ rpc = "recv"
    /\ nread < MaxFrames
    /\ rpc' = "exited"
    /\ rerr' = TRUE
    /\ nread' = nread + 1
    /\ toolsQueue' = {}
    /\ UNCHANGED << rmsg, rstale, sawEnd, lost, delivered >>
    /\ UNCHANGED << ctrlVars, callVars, chanBuf, crashed >>

\* a Receive error that is logged without leaving the for loop
LoopReceiveErrorContinuing ==
    /\ ~crashed
    /\ UNCHANGED srvVars
    /\ rpc = "recv"
    /\ nread < MaxFrames
    /\ rerr' = TRUE
    /\ nread' = nread + 1
    /\ UNCHANGED << rpc, rmsg, rstale, sawEnd, lost, delivered >>
    /\ UNCHANGED << ctrlVars, callVars, tableVars, crashed >>

\* lines 177-181: stream.Receive returns an error; the goroutine exits
LoopReceiveError ==
    /\ ~crashed
    /\ UNCHANGED srvVars
    /\ rpc = "recv"
    /\ nread < MaxFrames
    /\ rpc' = "exited"
    /\ rerr' = TRUE
    /\ nread' = nread + 1
    /\ UNCHANGED << rmsg, rstale, sawEnd, lost, delivered >>
    /\ UNCHANGED << ctrlVars, callVars, tableVars, crashed >>

\* a type switch whose session-end case leaves the for loop
NextAfterBreak(f) ==
    IF f.kind = "ToolCallResponse" THEN "lookup"
    ELSE IF f.kind = "SessionEnd" THEN "exited"
    ELSE "recv"

\* lines 183-205: where the type switch leaves the goroutine: a tool call
\* response goes to the lookup, a nil one is logged and skipped (lines
\* 186-189), the session-end case only logs, and a frame with no case falls
\* through; all three go back to Receive
NextAfter(f) ==
    IF f.kind = "ToolCallResponse" THEN "lookup" ELSE "recv"

\* lines 177-192, 203-205: stream.Receive returns a frame; the type switch
LoopReceive ==
    /\ ~crashed
    /\ UNCHANGED srvVars
    /\ rpc = "recv"
    /\ nread < MaxFrames
    /\ nread' = nread + 1
    /\ \E f \in PeerFrames :
         /\ rpc' = NextAfter(f)
         /\ sawEnd' = (sawEnd \/ f.kind = "SessionEnd")
         /\ IF f.kind = "ToolCallResponse"
            THEN /\ rmsg' = f
                 /\ rstale' = (f.id \notin PendingIDs)
            ELSE UNCHANGED << rmsg, rstale >>
    /\ UNCHANGED << rerr, lost, delivered >>
    /\ UNCHANGED << ctrlVars, callVars, tableVars, crashed >>

\* lines 194-196: ch, ok := a.toolsQueue[id], under a.mu
LookupOK(id) == id \in toolsQueue

\* lines 194-202: the lookup; an unknown id is logged and dropped
LoopLookup ==
    /\ ~crashed
    /\ UNCHANGED srvVars
    /\ MuFree
    /\ rpc = "lookup"
    /\ IF LookupOK(rmsg.id)
       THEN /\ rpc' = "deliver"
            /\ UNCHANGED << rmsg, rstale, lost >>
       ELSE /\ rpc' = "recv"
            /\ rmsg' = None
            /\ rstale' = FALSE
            /\ lost' = lost \cup ({rmsg.id} \cap PendingIDs)
    /\ UNCHANGED << sawEnd, rerr, nread, delivered >>
    /\ UNCHANGED << ctrlVars, callVars, tableVars, crashed >>

\* the channel of another request id than m's
SlotOther(m) == IF m.id = 1 THEN 2 ELSE 1

\* line 195: the ch that the lookup of m's request id gave
Slot(m) == m.id

\* a send of nil in place of the response
ChanValueNil(m) == None

\* line 199: the value sent on the channel, the response that was looked up
ChanValue(m) == m

\* line 199: ch <- toolCallResponse, a.mu released; blocks while the buffer is full
LoopDeliver ==
    /\ ~crashed
    /\ UNCHANGED srvVars
    /\ rpc = "deliver"
    /\ Len(chanBuf[Slot(rmsg)]) < 1
    /\ chanBuf' = [chanBuf EXCEPT ![Slot(rmsg)] = Append(@, ChanValue(rmsg))]
    /\ delivered' = Append(delivered, rmsg.id)
    /\ rpc' = "recv"
    /\ rmsg' = None
    /\ rstale' = FALSE
    /\ UNCHANGED << sawEnd, rerr, nread, lost, toolsQueue >>
    /\ UNCHANGED << ctrlVars, callVars, crashed >>

\* ------------------------------------------------------------ specification
Next ==
    \/ ReceiveInitial
    \/ Setup
    \/ StartReceiveLoop
    \/ CreateRunner
    \/ \E c \in Calls : Invoke(c)
    \/ EngineEvent
    \/ EngineError
    \/ EngineDone
    \/ SendRunResponse
    \/ SendSessionEndAck
    \/ \E c \in Calls : SendToolCallRequest(c)
    \/ \E c \in Calls : Register(c)
    \/ \E c \in Calls : EvalChan(c)
    \/ \E c \in Calls : SelectResponse(c)
    \/ \E c \in Calls : SelectTimeout(c)
    \/ \E c \in Calls : CleanupResponse(c)
    \/ \E c \in Calls : CleanupTimeout(c)
    \/ LoopReceiveError
    \/ LoopReceive
    \/ LoopLookup
    \/ LoopDeliver

Spec == Init /\ [][Next]_vars

\* the scheduler runs every runnable goroutine and every timer fires: a
\* dispatch closure that can take a step takes it
FairSpec ==
    /\ Spec
    /\ \A c \in Calls :
         /\ WF_vars(SendToolCallRequest(c))
         /\ WF_vars(Register(c))
         /\ WF_vars(EvalChan(c))
         /\ WF_vars(SelectTimeout(c))
         /\ WF_vars(CleanupResponse(c))
         /\ WF_vars(CleanupTimeout(c))

\* the handler after the first Receive gave the run request of two tools,
\* with a peer that sends nothing more: the closures end by send failure or
\* timeout
BindingInit ==
    /\ cpc = "setup"
    /\ cerr = ""
    /\ message = TwoToolRequest
    /\ decls = <<>>
    /\ toolsQueue = {}
    /\ chanBuf = [i \in Calls |-> <<>>]
    /\ pc = [c \in Calls |-> "idle"]
    /\ requestID = [c \in Calls |-> NoID]
    /\ toolName = [c \in Calls |-> ""]
    /\ called = [c \in Calls |-> NotCalled]
    /\ waitCh = [c \in Calls |-> NilChan]
    /\ response = [c \in Calls |-> None]
    /\ result = [c \in Calls |-> NoResult]
    /\ nret = [c \in Calls |-> 0]
    /\ outbox = <<>>
    /\ rpc = "notStarted"
    /\ rmsg = None
    /\ rstale = FALSE
    /\ sawEnd = FALSE
    /\ rerr = FALSE
    /\ nread = 0
    /\ nloops = 0
    /\ nruns = 0
    /\ nevents = 0
    /\ emitted = <<>>
    /\ responseText = <<>>
    /\ lost = {}
    /\ delivered = <<>>
    /\ crashed = FALSE
    /\ conn = Conn("AgentSession", Header("Bearer ", Token("k1", 2)))
    /\ env = Env(<< "k1" >>, 1)
    /\ interceptors = << "auth", "validate" >>
    /\ aerr = ""
    /\ HandshakeIdle
    /\ CacheIdle

BindingNext ==
    \/ Setup
    \/ StartReceiveLoop
    \/ CreateRunner
    \/ \E c \in Calls : Invoke(c)
    \/ EngineEvent
    \/ EngineError
    \/ EngineDone
    \/ SendRunResponse
    \/ SendSessionEndAck
    \/ \E c \in Calls : SendToolCallRequest(c)
    \/ \E c \in Calls : Register(c)
    \/ \E c \in Calls : EvalChan(c)
    \/ \E c \in Calls : SelectTimeout(c)
    \/ \E c \in Calls : CleanupTimeout(c)
    \/ LoopReceiveError

BindingSpec == BindingInit /\ [][BindingNext]_vars

\* the handler after the first Receive gave a run request, for every request
\* of SchemaRunRequests
SchemaInit ==
    /\ cpc = "setup"
    /\ cerr = ""
    /\ message \in SchemaRunRequests
    /\ decls = <<>>
    /\ toolsQueue = {}
    /\ chanBuf = [i \in Calls |-> <<>>]
    /\ pc = [c \in Calls |-> "idle"]
    /\ requestID = [c \in Calls |-> NoID]
    /\ toolName = [c \in Calls |-> ""]
    /\ called = [c \in Calls |-> NotCalled]
    /\ waitCh = [c \in Calls |-> NilChan]
    /\ response = [c \in Calls |-> None]
    /\ result = [c \in Calls |-> NoResult]
    /\ nret = [c \in Calls |-> 0]
    /\ outbox = <<>>
    /\ rpc = "notStarted"
    /\ rmsg = None
    /\ rstale = FALSE
    /\ sawEnd = FALSE
    /\ rerr = FALSE
    /\ nread = 0
    /\ nloops = 0
    /\ nruns = 0
    /\ nevents = 0
    /\ emitted = <<>>
    /\ responseText = <<>>
    /\ lost = {}
    /\ delivered = <<>>
    /\ crashed = FALSE
    /\ conn = Conn("AgentSession", Header("Bearer ", Token("k1", 2)))
    /\ env = Env(<< "k1" >>, 1)
    /\ interceptors = << "auth", "validate" >>
    /\ aerr = ""
    /\ HandshakeIdle
    /\ CacheIdle

\* the construction of the declarations alone
SchemaNext == Setup
SchemaSpec == SchemaInit /\ [][SchemaNext]_vars

\* ------------------------------------------------------- authentication
\* (internal/auth, the second part of error.go; cmd/serve in cmd/main.go)

\* hex.DecodeString of an entry of PASETO_KEYS
HexOK(k) == k \in {"k1", "k2"}

\* GetAllKeys: the empty entries skipped, an entry that is no hex an error,
\* no key at all an error
RECURSIVE ParsedKeys(_)
ParsedKeys(raw) ==
    IF raw = <<>> THEN <<>>
    ELSE IF Head(raw) = "" THEN ParsedKeys(Tail(raw))
    ELSE << Head(raw) >> \o ParsedKeys(Tail(raw))
GetAllKeysError(raw) ==
    IF \E i \in 1..Len(raw) : raw[i] # "" /\ ~HexOK(raw[i]) THEN "invalid hex key"
    ELSE IF ParsedKeys(raw) = <<>> THEN "no valid keys found"
    ELSE ""

\* paseto Decrypt of the token under one key
Decrypts(tok, key) == tok.key = key

\* UserClaims.Valid: time.Now().After(c.ExpiresAt)
Expired(tok, now) == now > tok.exp

\* ValidateToken: the keys in order; the first that decrypts decides
RECURSIVE TryKeys(_, _, _)
TryKeys(tok, keys, now) ==
    IF keys = <<>> THEN "invalid token"
    ELSE IF Decrypts(tok, Head(keys))
         THEN (IF Expired(tok, now) THEN "token expired" ELSE "")
    ELSE TryKeys(tok, Tail(keys), now)
ValidateToken(tok, e) ==
    IF GetAllKeysError(e.keys) # "" THEN GetAllKeysError(e.keys)
    ELSE TryKeys(tok, ParsedKeys(e.keys), e.now)

\* strings.TrimSpace(strings.TrimPrefix(header, "Bearer "))
TrimmedToken(h) == IF h.body = Blank THEN NoToken ELSE h.body

\* authInterceptor: the error it answers the connection with, "" when it
\* calls next
Authenticate(c, e) ==
    IF c.procedure = "DeviceHandshake" THEN ""
    ELSE IF TrimmedToken(c.authorization) = NoToken THEN "missing token"
    ELSE IF ValidateToken(TrimmedToken(c.authorization), e) # ""
         THEN "invalid or expired session"
    ELSE ""

\* the interceptors registered with the handler run; the handler is called
\* when none of them answers with an error
Serve ==
    /\ cpc = "notCalled"
    /\ LET err == IF \E i \in 1..Len(interceptors) : interceptors[i] = "auth"
                  THEN Authenticate(conn, env) ELSE ""
       IN IF err # ""
          THEN aerr' = err /\ cpc' = "refused"
          ELSE /\ aerr' = aerr
               /\ cpc' = IF conn.procedure = "AgentSession" THEN "receive" ELSE "otherHandler"
    /\ UNCHANGED << cerr, message, decls, outbox, nloops, nruns, nevents, emitted,
                    responseText >>
    /\ UNCHANGED << callVars, loopVars, tableVars, crashed, conn, env, interceptors >>
    /\ UNCHANGED << hsVars, cacheVars >>

\* a connection before the server has run the interceptors, for every
\* header, environment and registration
AuthInit ==
    /\ cpc = "notCalled"
    /\ cerr = ""
    /\ message = NoFrame
    /\ decls = <<>>
    /\ toolsQueue = {}
    /\ chanBuf = [i \in Calls |-> <<>>]
    /\ pc = [c \in Calls |-> "idle"]
    /\ requestID = [c \in Calls |-> NoID]
    /\ toolName = [c \in Calls |-> ""]
    /\ called = [c \in Calls |-> NotCalled]
    /\ waitCh = [c \in Calls |-> NilChan]
    /\ response = [c \in Calls |-> None]
    /\ result = [c \in Calls |-> NoResult]
    /\ nret = [c \in Calls |-> 0]
    /\ outbox = <<>>
    /\ rpc = "notStarted"
    /\ rmsg = None
    /\ rstale = FALSE
    /\ sawEnd = FALSE
    /\ rerr = FALSE
    /\ nread = 0
    /\ nloops = 0
    /\ nruns = 0
    /\ nevents = 0
    /\ emitted = <<>>
    /\ responseText = <<>>
    /\ lost = {}
    /\ delivered = <<>>
    /\ crashed = FALSE
    /\ conn \in Conns
    /\ env \in Envs
    /\ interceptors \in Registrations
    /\ aerr = ""
    /\ HandshakeIdle
    /\ CacheIdle

AuthNext == Serve \/ ReceiveInitial
AuthSpec == AuthInit /\ [][AuthNext]_vars

\* ------------------------------------------------------ device handshake
\* (internal/brain/service.go)

\* strconv.ParseInt(timestampStr, 10, 64) of a text of decimal digits
Digits == << "0", "1", "2", "3", "4", "5", "6", "7", "8", "9" >>
IsDigit(c) == \E i \in 1..Len(Digits) : Digits[i] = c
DigitValue(c) == (CHOOSE i \in 1..Len(Digits) : Digits[i] = c) - 1
ParseOK(t) == t # <<>> /\ \A i \in 1..Len(t) : IsDigit(t[i])
RECURSIVE ParseValue(_)
ParseValue(t) ==
    IF t = <<>> THEN 0
    ELSE 10 * ParseValue(SubSeq(t, 1, Len(t) - 1)) + DigitValue(t[Len(t)])

\* line 93: the timestamp window, in seconds
Window == 30
OutOfWindow(ts) == Now - ts > Window \/ ts - Now > Window

\* hex.DecodeString of the secret's text ("" decodes to the empty key)
SecretHexOK(v) == v # "zz"
\* a verifyHMAC that reads the variable the handshake test sets
SecretNameOfTest == "FOCUSD_HMAC_SECRET_KEY"
\* the environment variable verifyHMAC reads (line 122)
SecretName == "HMAC_SECRET_KEY"

\* line 119: the string to sign
Payload(r) == r.fingerprint \o r.timestamp \o r.nonce

\* verifyHMAC returned err: DeviceHandshake answers lines 38-41
VerifyFailed(h, err) ==
    /\ hverr' = [hverr EXCEPT ![h] = err]
    /\ hres' = [hres EXCEPT ![h] = "signature verification failed"]
    /\ hpc' = [hpc EXCEPT ![h] = "done"]

\* DeviceHandshake answers with an error after verifyHMAC returned nil
HandshakeFailed(h, err) ==
    /\ hres' = [hres EXCEPT ![h] = err]
    /\ hpc' = [hpc EXCEPT ![h] = "done"]

\* the request r sent with another X-Nonce, signed as r was
OtherNonce(n) == IF n = <<>> THEN << "n" >> ELSE <<>>
WithOtherNonce(r) ==
    LET q == [r EXCEPT !.nonce = OtherNonce(r.nonce)]
    IN  IF r.signature # NoSig /\ r.signature.msg = Payload(r)
        THEN [q EXCEPT !.signature = Sig(r.signature.key, Payload(q))]
        ELSE q

\* what a client sends after its first request r: r again, or r with a
\* nonce of its own
LaterRequests(r) == { r, WithOtherNonce(r) }

\* a DeviceHandshake request reaches the handler (the interceptor lets the
\* procedure through), while earlier ones may still be served
Arrive(h) ==
    /\ hpc[h] = "idle"
    /\ \A g \in Handshakes : g < h => hpc[g] # "idle"
    /\ \E r \in IF h = 1 THEN HandshakeRequests ELSE LaterRequests(hreq[1]) :
         hreq' = [hreq EXCEPT ![h] = r]
    /\ hpc' = [hpc EXCEPT ![h] = "verify"]
    /\ UNCHANGED << hmacEnv, nonces, users, hverr, hres, huser >>
    /\ UNCHANGED << ctrlVars, callVars, loopVars, tableVars, crashed, authVars, cacheVars >>

\* lines 78-95: the headers, the timestamp and its window
VerifyHeaders(h) ==
    /\ hpc[h] = "verify"
    /\ IF hreq[h].timestamp = <<>> \/ hreq[h].signature = NoSig
       THEN VerifyFailed(h, "missing security headers")
       ELSE IF ~ParseOK(hreq[h].timestamp)
       THEN VerifyFailed(h, "invalid timestamp")
       ELSE IF OutOfWindow(ParseValue(hreq[h].timestamp))
       THEN VerifyFailed(h, "request expired")
       ELSE /\ hpc' = [hpc EXCEPT ![h] = "nonceLookup"]
            /\ UNCHANGED << hverr, hres >>
    /\ UNCHANGED << hmacEnv, nonces, users, hreq, huser >>
    /\ UNCHANGED << ctrlVars, callVars, loopVars, tableVars, crashed, authVars, cacheVars >>

\* lines 98-102: the nonce is looked up; only an error other than
\* ErrRecordNotFound returns, a nonce that is found does not
NonceLookup(h) ==
    /\ hpc[h] = "nonceLookup"
    /\ \E dbok \in BOOLEAN :
         IF dbok
         THEN /\ hpc' = [hpc EXCEPT ![h] = "nonceCreate"]
              /\ UNCHANGED << hverr, hres >>
         ELSE VerifyFailed(h, "db error")
    /\ UNCHANGED << hmacEnv, nonces, users, hreq, huser >>
    /\ UNCHANGED << ctrlVars, callVars, loopVars, tableVars, crashed, authVars, cacheVars >>

\* lines 104-110: the nonce row is created
NonceCreate(h) ==
    /\ hpc[h] = "nonceCreate"
    /\ \E dbok \in BOOLEAN :
         IF dbok
         THEN /\ nonces' = Append(nonces, [nonce |-> hreq[h].nonce, created_at |-> Now,
                                           expires_at |-> Now + Window])
              /\ hpc' = [hpc EXCEPT ![h] = "compare"]
              /\ UNCHANGED << hverr, hres >>
         ELSE /\ nonces' = nonces
              /\ VerifyFailed(h, "db error")
    /\ UNCHANGED << hmacEnv, users, hreq, huser >>
    /\ UNCHANGED << ctrlVars, callVars, loopVars, tableVars, crashed, authVars, cacheVars >>

\* lines 119-136: the secret, the expected signature and the comparison
CompareSignature(h) ==
    /\ hpc[h] = "compare"
    /\ IF ~SecretHexOK(hmacEnv[SecretName])
       THEN VerifyFailed(h, "internal server error")
       ELSE IF hreq[h].signature # Sig(hmacEnv[SecretName], Payload(hreq[h]))
       THEN VerifyFailed(h, "invalid signature")
       ELSE /\ hpc' = [hpc EXCEPT ![h] = "fingerprint"]
            /\ UNCHANGED << hverr, hres >>
    /\ UNCHANGED << hmacEnv, nonces, users, hreq, huser >>
    /\ UNCHANGED << ctrlVars, callVars, loopVars, tableVars, crashed, authVars, cacheVars >>

\* lines 45-48
CheckFingerprint(h) ==
    /\ hpc[h] = "fingerprint"
    /\ IF hreq[h].fingerprint = <<>>
       THEN HandshakeFailed(h, "fingerprint required")
       ELSE hpc' = [hpc EXCEPT ![h] = "find"] /\ hres' = hres
    /\ UNCHANGED << hmacEnv, nonces, users, hreq, hverr, huser >>
    /\ UNCHANGED << ctrlVars, callVars, loopVars, tableVars, crashed, authVars, cacheVars >>

\* lines 141-149: upsertShadowUser looks the fingerprint up
FindUser(h) ==
    /\ hpc[h] = "find"
    /\ \E dbok \in BOOLEAN :
         IF ~dbok THEN HandshakeFailed(h, "db error") /\ huser' = huser
         ELSE IF \E i \in 1..Len(users) : users[i] = hreq[h].fingerprint
         THEN /\ huser' = [huser EXCEPT ![h] =
                             CHOOSE i \in 1..Len(users) :
                               /\ users[i] = hreq[h].fingerprint
                               /\ \A j \in 1..(i - 1) : users[j] # hreq[h].fingerprint]
              /\ hpc' = [hpc EXCEPT ![h] = "mint"]
              /\ hres' = hres
         ELSE /\ hpc' = [hpc EXCEPT ![h] = "createUser"]
              /\ UNCHANGED << hres, huser >>
    /\ UNCHANGED << hmacEnv, nonces, users, hreq, hverr >>
    /\ UNCHANGED << ctrlVars, callVars, loopVars, tableVars, crashed, authVars, cacheVars >>

\* lines 151-163: upsertShadowUser creates the user
CreateUser(h) ==
    /\ hpc[h] = "createUser"
    /\ \E dbok \in BOOLEAN :
         IF dbok
         THEN /\ users' = Append(users, hreq[h].fingerprint)
              /\ huser' = [huser EXCEPT ![h] = Len(users) + 1]
              /\ hpc' = [hpc EXCEPT ![h] = "mint"]
              /\ hres' = hres
         ELSE /\ HandshakeFailed(h, "db error")
              /\ UNCHANGED << users, huser >>
    /\ UNCHANGED << hmacEnv, nonces, hreq, hverr >>
    /\ UNCHANGED << ctrlVars, callVars, loopVars, tableVars, crashed, authVars, cacheVars >>

\* lines 63-66: MintToken under the active key, the first of PASETO_KEYS
Mint(h) ==
    /\ hpc[h] = "mint"
    /\ IF env.keys[1] = "" \/ ~HexOK(env.keys[1])
       THEN HandshakeFailed(h, "failed to mint session")
       ELSE HandshakeFailed(h, "ok")
    /\ UNCHANGED << hmacEnv, nonces, users, hreq, hverr, huser >>
    /\ UNCHANGED << ctrlVars, callVars, loopVars, tableVars, crashed, authVars, cacheVars >>

\* the service before any DeviceHandshake call, for every setting of the
\* variables that hold the secret
HandshakeInit ==
    /\ cpc = "receive"
    /\ cerr = ""
    /\ message = NoFrame
    /\ decls = <<>>
    /\ toolsQueue = {}
    /\ chanBuf = [i \in Calls |-> <<>>]
    /\ pc = [c \in Calls |-> "idle"]
    /\ requestID = [c \in Calls |-> NoID]
    /\ toolName = [c \in Calls |-> ""]
    /\ called = [c \in Calls |-> NotCalled]
    /\ waitCh = [c \in Calls |-> NilChan]
    /\ response = [c \in Calls |-> None]
    /\ result = [c \in Calls |-> NoResult]
    /\ nret = [c \in Calls |-> 0]
    /\ outbox = <<>>
    /\ rpc = "notStarted"
    /\ rmsg = None
    /\ rstale = FALSE
    /\ sawEnd = FALSE
    /\ rerr = FALSE
    /\ nread = 0
    /\ nloops = 0
    /\ nruns = 0
    /\ nevents = 0
    /\ emitted = <<>>
    /\ responseText = <<>>
    /\ lost = {}
    /\ delivered = <<>>
    /\ crashed = FALSE
    /\ conn = Conn("AgentSession", Header("Bearer ", Token("k1", 2)))
    /\ env \in { Env(<< "k1" >>, 1), Env(<< "" >>, 1) }
    /\ interceptors = << "auth", "validate" >>
    /\ aerr = ""
    /\ hmacEnv \in HmacEnvs
    /\ nonces = <<>>
    /\ users = <<>>
    /\ hreq = [h \in Handshakes |-> NoRequest]
    /\ hpc = [h \in Handshakes |-> "idle"]
    /\ hverr = [h \in Handshakes |-> ""]
    /\ hres = [h \in Handshakes |-> ""]
    /\ huser = [h \in Handshakes |-> NoUser]
    /\ CacheIdle

HandshakeNext ==
    \E h \in Handshakes :
        \/ Arrive(h)
        \/ VerifyHeaders(h)
        \/ NonceLookup(h)
        \/ NonceCreate(h)
        \/ CompareSignature(h)
        \/ CheckFingerprint(h)
        \/ FindUser(h)
        \/ CreateUser(h)
        \/ Mint(h)
HandshakeSpec == HandshakeInit /\ [][HandshakeNext]_vars

\* ------------------------------------------------ classification cache
\* (internal/brain/classification.go)

\* line 26: the time a response stays in the cache, in seconds
cacheTTLSeconds == 86400
\* the step of the clock between two operations: half the time to live
ClockStep == 43200

\* a query that also takes the rows that expire at this very second
UnexpiredInclusive(row, now) == row.expires_at >= now

\* line 685: expires_at > ? with time.Now().Unix()
Unexpired(row, now) == row.expires_at > now

\* lines 693-700: the row storeInCache saves
Row(text, now) ==
    [response |-> text, created_at |-> now, expires_at |-> now + cacheTTLSeconds]

QueryKey(q) == generateCacheKey(qreq[q].prompt, qreq[q].context)
Answer(kind, text) == [kind |-> kind, text |-> text]

OtherVarsOfCache ==
    UNCHANGED << ctrlVars, callVars, loopVars, tableVars, crashed, authVars, hsVars >>

\* a classification request reaches classifyWithCache (line 601)
Ask(q) ==
    /\ qpc[q] = "idle"
    /\ \A r \in Queries : r < q => qpc[r] # "idle"
    /\ \E p \in Prompts, d \in Contexts :
         qreq' = [qreq EXCEPT ![q] = [prompt |-> p, context |-> d]]
    /\ qpc' = [qpc EXCEPT ![q] = "lookup"]
    /\ UNCHANGED << cache, clock, nticks, qlerr, qgem, qres >>
    /\ OtherVarsOfCache

\* time passes
Tick ==
    /\ nticks < MaxTicks
    /\ nticks' = nticks + 1
    /\ clock' = clock + ClockStep
    /\ UNCHANGED << cache, qpc, qreq, qlerr, qgem, qres >>
    /\ OtherVarsOfCache

\* lines 606-610 and 682-690: getFromCache; a row that is found, unexpired
\* and not empty is returned, anything else (no such row, a failed query,
\* an empty response) goes on to the model
GetFromCache(q) ==
    /\ qpc[q] = "lookup"
    /\ \E dbok \in BOOLEAN :
         LET row == cache[QueryKey(q)]
             found == dbok /\ row # NoRow /\ Unexpired(row, clock)
         IN  /\ qlerr' = [qlerr EXCEPT ![q] = ~dbok]
             /\ IF found /\ row.response # ""
                THEN /\ qres' = [qres EXCEPT ![q] = Answer("ok", row.response)]
                     /\ qpc' = [qpc EXCEPT ![q] = "done"]
                ELSE /\ qres' = qres
                     /\ qpc' = [qpc EXCEPT ![q] = "gemini"]
    /\ UNCHANGED << cache, clock, nticks, qreq, qgem >>
    /\ OtherVarsOfCache

\* lines 615-629: callGemini; its error is returned, its text is returned
\* while a goroutine stores it
CallGemini(q) ==
    /\ qpc[q] = "gemini"
    /\ qgem' = [qgem EXCEPT ![q] = @ + 1]
    /\ \E ok \in BOOLEAN, t \in GeminiTexts :
         IF ok
         THEN /\ qres' = [qres EXCEPT ![q] = Answer("ok", t)]
              /\ qpc' = [qpc EXCEPT ![q] = "store"]
         ELSE /\ qres' = [qres EXCEPT ![q] = Answer("error", "")]
              /\ qpc' = [qpc EXCEPT ![q] = "done"]
    /\ UNCHANGED << cache, clock, nticks, qreq, qlerr >>
    /\ OtherVarsOfCache

\* lines 622-626 and 693-703: the goroutine's storeInCache; Save writes the
\* row of the hash, and its error is only logged
StoreInCache(q) ==
    /\ qpc[q] = "store"
    /\ \E dbok \in BOOLEAN :
         cache' = IF dbok
                  THEN [cache EXCEPT ![QueryKey(q)] = Row(qres[q].text, clock)]
                  ELSE cache
    /\ qpc' = [qpc EXCEPT ![q] = "done"]
    /\ UNCHANGED << clock, nticks, qreq, qlerr, qgem, qres >>
    /\ OtherVarsOfCache

CacheInit == Init

CacheNext ==
    \/ \E q \in Queries : Ask(q)
    \/ Tick
    \/ \E q \in Queries : GetFromCache(q)
    \/ \E q \in Queries : CallGemini(q)
    \/ \E q \in Queries : StoreInCache(q)

CacheSpec == CacheInit /\ [][CacheNext]_vars

\* ------------------------------------------------------------------ claims
Returned == { c \in Calls : pc[c] = "returned" }
TimeoutKind == "tool call response timeout after 3 minutes"
SendFailedKind == "failed to send tool call request"
ResponseKinds == { "ok", "failed to unmarshal tool call response",
                   "no tool call response received" }
\* the closure left its select by the receive case
TookResponse(c) ==
    \/ pc[c] = "cleanupResponse"
    \/ pc[c] = "returned" /\ result[c].kind \in ResponseKinds

\* C1 as stated: every dispatch call that drew a request id returns at most
\* once, and by exactly one of the response bearing its own id and its own
\* timeout.
C1_ResolvesByResponseOrTimeout ==
    \A c \in Calls :
        /\ nret[c] <= 1
        /\ pc[c] = "returned" =>
             /\ result[c].kind \in ResponseKinds \cup {TimeoutKind}
             /\ result[c].kind \in ResponseKinds => response[c].id = requestID[c]
             /\ result[c].kind = TimeoutKind => response[c] = None

\* C1 amended: a dispatch call whose request frame was sent returns at most
\* once, by the response bearing its own id (then it took exactly that
\* response and no timeout) or by its own timeout (then it took no response);
\* a call whose send failed returns the send failure, having taken nothing and
\* registered nothing.
C1_SentCallResolvesOnce ==
    \A c \in Calls :
        /\ nret[c] <= 1
        /\ (pc[c] = "returned") = (nret[c] = 1)
        /\ pc[c] = "returned" =>
             /\ result[c].kind \in ResponseKinds \cup {TimeoutKind, SendFailedKind}
             /\ (result[c].kind = SendFailedKind) = (requestID[c] \notin SentIDs)
             /\ result[c].kind \in ResponseKinds =>
                  /\ response[c].kind = "ToolCallResponse"
                  /\ response[c].id = requestID[c]
             /\ result[c].kind \in {TimeoutKind, SendFailedKind} => response[c] = None

\* two calls of one run, one resolved by its response and one by its timeout
C1_Witness ==
    \E c, d \in Calls :
        /\ pc[c] = "returned" /\ result[c].kind = "ok"
        /\ pc[d] = "returned" /\ result[d].kind = TimeoutKind

\* C2 as stated: no response that bears the id of a call whose request was
\* sent and whose wait has not ended is dropped as unknown, and a call that
\* returns the timeout failure had no response written into its channel.
C2_ResponseInTimeIsDelivered ==
    /\ lost = {}
    /\ \A c \in Calls :
         pc[c] = "returned" /\ result[c].kind = TimeoutKind =>
            \A i \in 1..Len(delivered) : delivered[i] # requestID[c]

\* C3 as stated: while a call whose request frame was sent has not left its
\* wait, the table holds an entry for its request id.
C3_RegisteredBeforeSent ==
    \A c \in Calls :
        requestID[c] \in SentIDs /\ c \in Pending => requestID[c] \in toolsQueue

LoopBlockedForever ==
    /\ rpc = "deliver"
    /\ Len(chanBuf[Slot(rmsg)]) = 1
    /\ \A c \in Calls : requestID[c] = Slot(rmsg) => c \notin Pending

\* C5 as stated: a response whose id was unknown or already resolved when it
\* was read never stops the receive goroutine, so that the other pending
\* calls can still be resolved.
C5_StaleResponseIsDropped ==
    ~(rstale /\ LoopBlockedForever)

\* C6: with a second response for an id sent at any point, every entry of
\* the table belongs to a call that registered and has not returned, every
\* channel out of the table is that of a call that left its wait, and no call
\* took a response bearing another id.
C6_DuplicateIsHarmless ==
    /\ toolsQueue \subseteq
         { requestID[c] : c \in { d \in Calls : pc[d] \in
             {"evalchan", "select", "cleanupResponse", "cleanupTimeout"} } }
    /\ \A c \in Calls : TookResponse(c) => response[c].id = requestID[c]
    /\ \A c \in Calls : response[c] # None => TookResponse(c)

\* two responses for one id were written into its channel, and its call returned
C6_Witness ==
    \E i, j \in 1..Len(delivered) :
        /\ i < j
        /\ delivered[i] = delivered[j]
        /\ \E c \in Returned : requestID[c] = delivered[i]

\* C7 as stated: every dispatch call whose timer fired in its wait eventually
\* returns the timeout failure, its entry removed from the table.
C7_WaitingCallReturns ==
    \A c \in Calls :
        (pc[c] = "cleanupTimeout") ~>
            /\ pc[c] = "returned"
            /\ result[c].kind = TimeoutKind
            /\ requestID[c] \notin toolsQueue

\* C8 as stated: after a run request with no agents or with an empty user
\* message, no receive goroutine is started, the engine is not run, nothing
\* is sent, and the handler does not return nil.
EmptyRunRequest(m) ==
    IsRunRequest(m) /\ (m.agents = <<>> \/ m.user_message = "")
C8_EmptyRunRequestFails ==
    EmptyRunRequest(message) =>
        /\ nloops = 0
        /\ nruns = 0
        /\ outbox = <<>>
        /\ cpc = "returned" => cerr # ""

\* C9: when the first Receive failed or the first frame is no run request,
\* the handler has returned an error, no receive goroutine was started, the
\* engine was not run, the table is empty and nothing was sent.
C9_NoRunRequestFailsFirst ==
    message.kind \in {"error", "ToolCallResponse", "SessionEnd"} =>
        /\ cpc = "returned"
        /\ cerr # ""
        /\ nloops = 0
        /\ rpc = "notStarted"
        /\ nruns = 0
        /\ toolsQueue = {}
        /\ outbox = <<>>

\* the first frame was a session end, and the handler returned
C9_Witness ==
    /\ message.kind = "SessionEnd"
    /\ cpc = "returned"

\* C10: at most one run response and one acknowledgment are sent, the
\* acknowledgment (acknowledged=true) right after the run response and last
\* of all frames; after a failed send of the run response there is no
\* acknowledgment; the handler returns nil exactly when both were sent, and
\* no sooner than the acknowledgment.
C10_ResultThenAck ==
    LET rr == Sent("RunResponse")
        ak == Sent("SessionEndAck")
    IN /\ Cardinality(rr) <= 1
       /\ Cardinality(ak) <= 1
       /\ \A j \in ak : /\ j = Len(outbox)
                        /\ j - 1 \in rr
                        /\ outbox[j].payload = "true"
       /\ rr # {} => cpc \in {"sendSessionEndAck", "returned"}
       /\ cpc = "sendSessionEndAck" => rr # {} /\ ak = {}
       /\ cpc = "returned" => ((cerr = "") = (rr # {} /\ ak # {}))
       /\ cpc # "returned" => ak = {}
       /\ cerr = "failed to send run response" => rr = {} /\ ak = {}
       /\ cerr = "failed to send session end ack" => rr # {} /\ ak = {}

\* the engine ended without error after a tool call, and the handler returned nil
C10_Witness ==
    /\ cpc = "returned"
    /\ cerr = ""
    /\ Returned # {}
    /\ Len(outbox) >= 3

\* C11: when the handler returned the error of the engine run, also with
\* text already collected, no run response and no acknowledgment was sent,
\* and every frame sent is a tool call request.
EngineErrorKind == "error during agent run"
C11_EngineErrorSendsNothing ==
    cerr = EngineErrorKind =>
        /\ cpc = "returned"
        /\ nruns = 1
        /\ Sent("RunResponse") = {}
        /\ Sent("SessionEndAck") = {}
        /\ \A i \in 1..Len(outbox) : outbox[i].kind = "ToolCallRequest"

\* the engine failed after a tool call returned and text was collected
C11_Witness ==
    /\ cerr = EngineErrorKind
    /\ responseText # <<>>
    /\ Returned # {}

\* C12: at most one receive goroutine is started; once r.Run was invoked
\* exactly one has been; and while the handler itself reads the stream (its
\* first Receive) no receive goroutine exists, so never two readers.
C12_OneReceiveLoopBeforeEngine ==
    /\ nloops <= 1
    /\ nruns <= 1
    /\ nruns = 1 => nloops = 1
    /\ cpc \in {"run", "sendRunResponse", "sendSessionEndAck"} => nruns = 1
    /\ (rpc # "notStarted") = (nloops = 1)
    /\ cpc = "receive" => rpc = "notStarted"
    /\ nread > 0 => nloops = 1

\* the engine runs a tool call while the one receive goroutine has read a frame
C12_Witness ==
    /\ nruns = 1
    /\ nloops = 1
    /\ nread > 0
    /\ InFlight # {}

\* C13 as stated: handling a tool call response always completes, whatever
\* its request id, so the receive goroutine always gets back to reading the
\* stream: whenever it stands at its channel send, the buffer has room or the
\* owner of the channel is still to receive from it.
C13_LoopNeverBlocks ==
    rpc = "deliver" =>
        \/ Len(chanBuf[Slot(rmsg)]) < 1
        \/ \E c \in Pending : requestID[c] = Slot(rmsg)

\* a closure call waits with nothing in its channel
WaitsEmpty(c) ==
    /\ pc[c] = "select"
    /\ (waitCh[c] = NilChan \/ chanBuf[waitCh[c]] = <<>>)

\* C14: the step in which the receive goroutine exits on a read error
\* changes no closure call, no table entry and nothing of the handler; after
\* it nothing is delivered any more, a call waiting on an empty channel stays
\* waiting until its own timer fires, a call that left its wait by the timer
\* returns the timeout failure, and the handler is not made to return by it.
C14_StreamFailureNotPropagated ==
    [][ /\ (rpc # "exited" /\ rpc' = "exited") =>
             UNCHANGED << callVars, tableVars, ctrlVars, crashed >>
        /\ rpc = "exited" =>
             /\ rpc' = "exited"
             /\ delivered' = delivered
             /\ \A i \in Calls : Len(chanBuf'[i]) <= Len(chanBuf[i])
             /\ \A c \in Calls :
                  /\ WaitsEmpty(c) => pc'[c] \in {"select", "cleanupTimeout"}
                  /\ (pc[c] = "cleanupTimeout" /\ pc'[c] # "cleanupTimeout") =>
                       /\ pc'[c] = "returned"
                       /\ result'[c].kind = TimeoutKind
      ]_vars

\* the goroutine has exited on a read error and a call that was waiting
\* then has returned the timeout failure, another still waits
C14_Witness ==
    /\ rpc = "exited"
    /\ rerr
    /\ \E c \in Calls : pc[c] = "returned" /\ result[c].kind = TimeoutKind
    /\ \E c \in Calls : WaitsEmpty(c)
    /\ cpc = "run"

\* C15: a frame other than a tool call response read by the receive
\* goroutine, a session-end frame included, changes neither the table nor a
\* channel nor any closure call, and the goroutine stands at Receive again;
\* the goroutine exits only in a step in which Receive returned an error.
C15_OtherFramesChangeNothing ==
    [][ /\ (rpc = "recv" /\ nread' = nread + 1 /\ ~rerr' /\ rpc' # "lookup") =>
             /\ rpc' = "recv"
             /\ UNCHANGED << callVars, tableVars, rmsg, lost, delivered >>
        /\ (rpc # "exited" /\ rpc' = "exited") => (~rerr /\ rerr')
        /\ (sawEnd' /\ ~sawEnd) => (rpc' = "recv" /\ UNCHANGED << callVars, tableVars >>)
      ]_vars

\* after a session-end frame the goroutine has read a response for a call
\* that still waits, and is about to write it into that call's channel
C15_Witness ==
    /\ sawEnd
    /\ rpc = "deliver"
    /\ chanBuf[Slot(rmsg)] = <<>>
    /\ \E c \in Calls : pc[c] = "select" /\ waitCh[c] = Slot(rmsg)

\* C16 as stated: after a session-end frame has been read, the receive
\* goroutine performs no further stream read.
C16_ExitsOnSessionEnd ==
    [][ sawEnd => nread' = nread ]_vars

\* C16 amended: the receive goroutine has exited exactly when its Receive
\* returned an error; having read a session-end frame and no error, it is
\* still in its loop.
C16_ExitsOnReadErrorOnly ==
    /\ (rpc = "exited") = rerr
    /\ (sawEnd /\ ~rerr) => rpc \in {"recv", "lookup", "deliver"}
    /\ rerr => nloops = 1

\* a session-end frame and a response were read and delivered before Receive
\* failed and the goroutine exited
C16_Witness ==
    /\ sawEnd
    /\ rerr
    /\ rpc = "exited"
    /\ delivered # <<>>

NilResponseKind == "no tool call response received"
DecodeFailedKind == "failed to unmarshal tool call response"
SendRunResponseFailed == "failed to send run response"
SendAckFailed == "failed to send session end ack"
\* the frames appended to the outbox by the step
NewFrames == { outbox'[i].kind : i \in (Len(outbox) + 1)..Len(outbox') }

\* C17 as stated: once a tool call request failed to be sent or the receive
\* goroutine saw a read error, no run response and no acknowledgment is sent
\* any more, and the handler returns an error.
C17_TransportFailureIsFatal ==
    [][ (rerr \/ \E c \in Calls : result[c].kind = SendFailedKind) =>
            /\ NewFrames \subseteq {"ToolCallRequest"}
            /\ cpc' = "returned" => cerr' # ""
      ]_vars

\* C17 amended: a failed send of the run response or of the acknowledgment
\* makes the handler return that error with no frame after it, and the
\* handler's own failed first Receive returns before anything is started; a
\* failed send of a tool call request makes the closure return the failure
\* to the engine, with no frame sent and no entry registered for its id.
C17_SendFailuresOfTheHandlerAreFatal ==
    /\ cerr = SendRunResponseFailed =>
         /\ cpc = "returned"
         /\ Sent("RunResponse") = {}
         /\ Sent("SessionEndAck") = {}
    /\ cerr = SendAckFailed =>
         /\ cpc = "returned"
         /\ Cardinality(Sent("RunResponse")) = 1
         /\ Sent("SessionEndAck") = {}
    /\ cerr = "receive failed" => (cpc = "returned" /\ nloops = 0 /\ outbox = <<>>)
    /\ (cpc = "returned" /\ cerr = "") =>
         /\ Cardinality(Sent("RunResponse")) = 1
         /\ Cardinality(Sent("SessionEndAck")) = 1
    /\ \A c \in Calls : result[c].kind = SendFailedKind =>
         /\ pc[c] = "returned"
         /\ requestID[c] \notin SentIDs
         /\ requestID[c] \notin toolsQueue
         /\ response[c] = None

\* a tool call request failed to be sent, the receive goroutine exited on a
\* read error, and the handler still sent both frames and returned nil
C17_Witness ==
    /\ \E c \in Calls : result[c].kind = SendFailedKind
    /\ rerr
    /\ cpc = "returned"
    /\ cerr = ""

\* C18: a call that returned by the timeout, by a nil response or by an
\* output that does not decode returned a failure with no output and its
\* entry is out of the table; a call returned success exactly for a response
\* whose output decodes; the nil failure is not the timeout failure; and no
\* such failure is what the handler returned.
C18_ToolFailuresGoToTheEngine ==
    /\ \A c \in Returned :
         /\ result[c].kind \in {TimeoutKind, NilResponseKind, DecodeFailedKind} =>
              /\ result[c].output = NoResult.output
              /\ requestID[c] \notin toolsQueue
         /\ result[c].kind = TimeoutKind => response[c] = None
         /\ result[c].kind = DecodeFailedKind =>
              (response[c] # None /\ ~UnmarshalOK(response[c].payload))
         /\ result[c].kind = "ok" =>
              (response[c] # None /\ UnmarshalOK(response[c].payload))
    /\ DecodeKind(None) = NilResponseKind
    /\ NilResponseKind # TimeoutKind
    /\ cerr \notin {TimeoutKind, NilResponseKind, DecodeFailedKind}

\* one call timed out, one took an output that does not decode, and the
\* handler went on to send both frames and return nil
C18_Witness ==
    /\ \E c \in Returned : result[c].kind = TimeoutKind
    /\ \E c \in Returned : result[c].kind = DecodeFailedKind
    /\ cpc = "returned"
    /\ cerr = ""

\* the tool call request frames bearing the request id of call c
RequestFrames(c) ==
    { i \in Sent("ToolCallRequest") : outbox[i].id = requestID[c] }

\* C19: every closure call has sent at most one tool call request, none
\* when its send failed and exactly one when it got as far as its wait,
\* whatever it returned; the handler has sent at most one run response and
\* at most one acknowledgment.
C19_NothingIsRetried ==
    /\ \A c \in Calls :
         /\ pc[c] # "idle" => Cardinality(RequestFrames(c)) <= 1
         /\ result[c].kind = SendFailedKind => RequestFrames(c) = {}
         /\ (pc[c] = "returned" /\ result[c].kind # SendFailedKind) =>
              Cardinality(RequestFrames(c)) = 1
    /\ Cardinality(Sent("ToolCallRequest")) <= Cardinality({ c \in Calls : pc[c] # "idle" })
    /\ Cardinality(Sent("RunResponse")) <= 1
    /\ Cardinality(Sent("SessionEndAck")) <= 1

\* one call timed out, the other's send failed, and the session is over
C19_Witness ==
    /\ \E c \in Returned : result[c].kind = TimeoutKind /\ Cardinality(RequestFrames(c)) = 1
    /\ \E c \in Returned : result[c].kind = SendFailedKind
    /\ Cardinality(Sent("ToolCallRequest")) = 1
    /\ cpc = "returned"

\* C20 as stated: every declaration built carries a non-null input schema
\* and a non-null output schema, the empty-object schema where the tool's
\* schema text is empty.
C20_SchemasNeverNull ==
    \A i \in 1..Len(decls) :
        /\ decls[i].InputSchema # NilSchema
        /\ decls[i].OutputSchema # NilSchema
        /\ AllTools(message.agents)[i].input_schema = "" => decls[i].InputSchema = EmptySchema
        /\ AllTools(message.agents)[i].output_schema = "" => decls[i].OutputSchema = EmptySchema

\* C20 amended: when the handler got past the construction there is one
\* declaration per tool, in order; its input schema is never null: the
\* parsed schema when the text has properties, the empty schema when the text
\* is empty or has none; its output schema is the parsed schema when the text
\* is not empty and null when it is; and a schema text that does not parse
\* makes the handler return an error with no declaration built.
C20_InputNeverNullOutputOnlyIfGiven ==
    LET ts == AllTools(message.agents) IN
    /\ cpc = "go" =>
         /\ Len(decls) = Len(ts)
         /\ \A i \in 1..Len(ts) :
              /\ decls[i].name = ts[i].name
              /\ decls[i].InputSchema # NilSchema
              /\ ts[i].input_schema \in {"", BareObject} => decls[i].InputSchema = EmptySchema
              /\ ts[i].input_schema = WithProperties =>
                   (decls[i].InputSchema.type = "object" /\ decls[i].InputSchema.properties = {"x"})
              /\ (ts[i].output_schema = "") = (decls[i].OutputSchema = NilSchema)
              /\ ts[i].output_schema = WithProperties =>
                   (decls[i].OutputSchema.type = "object" /\ decls[i].OutputSchema.properties = {"x"})
              /\ ts[i].input_schema # "oops"
              /\ ts[i].output_schema # "oops"
    /\ cerr \in {InputSchemaError, OutputSchemaError} =>
         /\ cpc = "returned"
         /\ decls = <<>>
         /\ \E i \in 1..Len(ts) : "oops" \in {ts[i].input_schema, ts[i].output_schema}
    /\ cpc # "go" => decls = <<>>

\* two declarations were built: one for a tool with no schema text at all,
\* one for a tool with both
C20_Witness ==
    /\ cpc = "go"
    /\ Len(decls) = 2
    /\ \E i \in 1..2 : /\ AllTools(message.agents)[i].input_schema = ""
                       /\ AllTools(message.agents)[i].output_schema = ""
                       /\ decls[i].InputSchema = EmptySchema
                       /\ decls[i].OutputSchema = NilSchema
    /\ \E i \in 1..2 : /\ decls[i].InputSchema.properties # {}
                       /\ decls[i].OutputSchema.properties # {}

\* the texts of a list of parts, in order, without the empty ones
RECURSIVE NonEmptyTexts(_)
NonEmptyTexts(parts) ==
    IF parts = <<>> THEN <<>>
    ELSE NonEmptyTexts(SubSeq(parts, 1, Len(parts) - 1))
           \o (IF parts[Len(parts)] = "" THEN <<>> ELSE << parts[Len(parts)] >>)
\* the same over a list of events, in emission order
RECURSIVE TextOfEvents(_)
TextOfEvents(events) ==
    IF events = <<>> THEN <<>>
    ELSE TextOfEvents(SubSeq(events, 1, Len(events) - 1))
           \o NonEmptyTexts(events[Len(events)])

\* C21: the content of a run response sent is the non-empty text parts of
\* all the events the engine yielded, in emission order, and nothing else;
\* the text collected so far is that of the events so far.
C21_ContentIsTextOfEvents ==
    /\ responseText = TextOfEvents(emitted)
    /\ Len(emitted) = nevents
    /\ \A i \in Sent("RunResponse") : outbox[i].content = TextOfEvents(emitted)

\* two events with different texts, one with an empty part, were yielded and
\* the run response carrying their texts in order was sent
C21_Witness ==
    /\ emitted = << <<"a", "", "b">>, <<"c">> >>
    /\ \E i \in Sent("RunResponse") : outbox[i].content = <<"a", "b", "c">>

\* the connection carries a token that one of the configured keys decrypts
\* and that has not expired
Authenticated ==
    /\ \A i \in 1..Len(env.keys) : env.keys[i] \in {"", "k1", "k2"}
    /\ \E i \in 1..Len(env.keys) :
         /\ env.keys[i] # ""
         /\ conn.authorization.body.key = env.keys[i]
    /\ conn.authorization.body.exp >= env.now

\* C22 as stated: the AgentSession handler has started, and a fortiori read
\* its first frame, only for a connection that is authenticated.
C22_OnlyAuthenticatedStreams ==
    (conn.procedure = "AgentSession" /\ cpc \notin {"notCalled", "refused"}) =>
        Authenticated

\* the secret key the service is configured with: the key its variable's
\* text is the hex of
ConfiguredSecret(k) ==
    /\ SecretHexOK(k)
    /\ hmacEnv["HMAC_SECRET_KEY"] = k

\* the nonce of call h was recorded: verifyHMAC got past its Create
NonceRecorded(h) ==
    /\ hpc[h] \in {"compare", "fingerprint", "find", "createUser", "mint", "done"}
    /\ hverr[h] \notin {"missing security headers", "invalid timestamp",
                        "request expired", "db error"}

DeliveredIDs == { delivered[i] : i \in 1..Len(delivered) }

\* C24 as stated: the receive goroutine that delivers a response into the
\* channel of a request id also removes that id's entry, so no id whose
\* response was delivered is still in the table.
C24_DeliveryRemovesEntry ==
    \A id \in DeliveredIDs : id \notin toolsQueue

\* one closure is about to read the table while another is about to write it,
\* and at least one of the two accesses is made outside the mutex
UnserializedAccess ==
    \E c, d \in Calls :
        /\ c # d
        /\ TableAccess(pc[c])
        /\ TableWrite(pc[d])
        /\ ~(UnderMu(pc[c]) /\ UnderMu(pc[d]))

\* C25 as stated: every task that is about to read or write the correlation
\* table makes that access between Lock and Unlock of a.mu, and no state has
\* a read and a write of the table that the mutex does not serialize.
C25_TableAccessUnderMutex ==
    /\ \A c \in Calls : TableAccess(pc[c]) => UnderMu(pc[c])
    /\ TableAccess(rpc) => UnderMu(rpc)
    /\ ~UnserializedAccess

\* the steps at which a task can block: the stream send and the select of a
\* closure (lines 117, 132), the stream read and the channel send of the
\* receive goroutine (lines 177, 199)
BlockingStep(step) == step \in {"send", "select", "recv", "deliver"}

C27_SlotWrittenAtMostOnce ==
    \A i, j \in 1..Len(delivered) : delivered[i] = delivered[j] => i = j

\* the receive goroutine found the entry of an id and has still to write into
\* its channel, and the closure of that id has removed the entry meanwhile
DeliveryAfterRemoval ==
    /\ rpc = "deliver"
    /\ Slot(rmsg) \notin toolsQueue

\* C28 as stated: every call returns, and so removes its id, at most once,
\* and once an id is removed no delivery for it writes into a channel or
\* blocks, also when the lookup came just before the removal: the receive
\* goroutine never stands at the channel send of a removed id.
C28_DeliveryAfterRemovalIsNoOp ==
    /\ \A c \in Calls : nret[c] <= 1
    /\ ~DeliveryAfterRemoval

\* the handler has returned after it started the receive goroutine
SessionOver == cpc = "returned" /\ nloops > 0

\* C29 as stated: once the handler has returned, on any path after the
\* receive goroutine was started, the table holds no entry and no closure
\* and no receive goroutine is at a read or a write of the table.
C29_NothingOutlivesSession ==
    SessionOver =>
        /\ toolsQueue = {}
        /\ ~TableAccess(rpc)
        /\ \A c \in Calls : ~TableAccess(pc[c])

\* the request ids of the closures that have inserted their entry and have
\* not returned to the engine
RegisteredIDs ==
    { requestID[c] : c \in { d \in Calls : pc[d] \in
        {"evalchan", "select", "cleanupResponse", "cleanupTimeout"} } }

\* no closure call is in flight
NoCallInFlight == \A c \in Calls : pc[c] \in {"idle", "returned"}

\* C30: the ids in the table are ids of closures that registered and have not
\* returned, and with no closure call in flight the table is empty, whichever
\* way the calls returned.
C30_TableHoldsOnlyRegisteredCalls ==
    /\ toolsQueue \subseteq RegisteredIDs
    /\ NoCallInFlight => toolsQueue = {}

\* both calls have returned, one of a send failure or a timeout and one with
\* the response it took, and the table is empty
C30_Witness ==
    /\ NoCallInFlight
    /\ toolsQueue = {}
    /\ \E c, d \in Returned :
          /\ result[c].kind \in {TimeoutKind, SendFailedKind}
          /\ result[d].kind \in {"ok", DecodeFailedKind}

\* C31 as stated: a call that is about to return the timeout failure has had
\* no response bearing its request id written into its channel; once that
\* response is in the channel the call returns what it decodes to.
C31_DeliveredResponseWins ==
    \A c \in Calls :
        pc[c] = "cleanupTimeout" => requestID[c] \notin DeliveredIDs

\* the request frames a closure call has on the stream
SentFor(c) == { i \in 1..Len(outbox) :
                  outbox[i].kind = "ToolCallRequest" /\ outbox[i].id = requestID[c] }

\* the call's send of its request frame failed: it has a request id and no
\* frame bearing it was sent
SendFailed(c) == requestID[c] # NoID /\ pc[c] # "send" /\ SentFor(c) = {}

\* a call whose send of the request frame failed has returned the send
\* failure, and its request id is not in the table and was never delivered to
SendFailureLeavesNoEntry ==
    \A c \in Calls :
        SendFailed(c) =>
            /\ pc[c] = "returned"
            /\ result[c].kind = SendFailedKind
            /\ requestID[c] \notin toolsQueue
            /\ requestID[c] \notin DeliveredIDs

\* the return of the send failure changes neither the table nor any channel,
\* and leaves every other call and the receive goroutine where they are
SendFailureStep ==
    \A c \in Calls :
        (pc[c] = "send" /\ pc'[c] = "returned") =>
            /\ UNCHANGED << tableVars, loopVars, outbox >>
            /\ \A d \in Calls \ {c} :
                  /\ pc'[d] = pc[d]
                  /\ waitCh'[d] = waitCh[d]
                  /\ response'[d] = response[d]
                  /\ result'[d] = result[d]

\* C32: a failed send of the request frame makes the call return the send
\* failure at once, without registering or waiting: its request id is never
\* in the table, the step changes nothing of the table, and the other calls
\* are where they were.
C32_SendFailureReturnsAtOnce ==
    []SendFailureLeavesNoEntry /\ [][SendFailureStep]_vars

\* one call returned the send failure while another waits in its select with
\* its entry in the table
C32_Witness ==
    \E c, d \in Calls :
        /\ pc[c] = "returned" /\ result[c].kind = SendFailedKind
        /\ pc[d] = "select" /\ requestID[d] \in toolsQueue

\* C33: no closure returns 'no tool call response received': no channel ever
\* holds a nil, so what a closure takes from its channel is a tool call
\* response, and a closure whose channel operand is nil takes nothing.
C33_NilResponseUnreachable ==
    /\ \A c \in Calls : result[c].kind # NilResponseKind
    /\ \A c \in Calls : TookResponse(c) => response[c].kind = "ToolCallResponse"
    /\ \A id \in DOMAIN chanBuf :
          \A i \in 1..Len(chanBuf[id]) : chanBuf[id][i].kind = "ToolCallResponse"
    /\ \A c \in Calls : (pc[c] = "select" /\ waitCh[c] = NilChan) => response[c] = None

\* one call has returned the output of the response it took while the other
\* waits in a select whose channel operand is nil
C33_Witness ==
    \E c, d \in Calls :
        /\ pc[c] = "returned" /\ result[c].kind = "ok"
        /\ pc[d] = "select" /\ waitCh[d] = NilChan

\* the place of each kind of frame in a session's output
FrameRank(k) ==
    IF k = "ToolCallRequest" THEN 1
    ELSE IF k = "RunResponse" THEN 2
    ELSE 3

\* the frames on the stream are in the order request, response, ack, with
\* one run response and one ack at most
OutboxOrdered ==
    \A i, j \in 1..Len(outbox) :
        i < j =>
            /\ FrameRank(outbox[i].kind) <= FrameRank(outbox[j].kind)
            /\ FrameRank(outbox[i].kind) > 1
                  => FrameRank(outbox[i].kind) < FrameRank(outbox[j].kind)

\* the ack was sent
AckSent == \E i \in 1..Len(outbox) : outbox[i].kind = "SessionEndAck"

\* C34: every tool call request on the stream precedes the run response, the
\* run response precedes the session-end ack, and no frame is sent after the
\* ack or after the handler has returned.
C34_OutboundFramesOrdered ==
    []OutboxOrdered /\ [][(AckSent \/ cpc = "returned") => outbox' = outbox]_vars

\* the handler has returned after two tool call requests, the run response
\* and the ack went out in that order
C34_Witness ==
    /\ cpc = "returned"
    /\ Len(outbox) = 4
    /\ outbox[1].kind = "ToolCallRequest"
    /\ outbox[2].kind = "ToolCallRequest"
    /\ outbox[3].kind = "RunResponse"
    /\ outbox[4].kind = "SessionEndAck"

\* the tool whose closure call c is
CalledTool(c) == message.agents[called[c][1]][called[c][2]]

\* C35: every request frame a closure call sent carries the name of the tool
\* its closure was made for, and the request id under which the call
\* registers: the id in the table while the call waits is the frame's.
C35_FrameNamesOwnToolAndId ==
    \A c \in Calls :
        /\ \A i \in SentFor(c) : outbox[i].name = CalledTool(c).name
        /\ pc[c] \in {"evalchan", "select"} =>
              /\ requestID[c] \in toolsQueue
              /\ SentFor(c) # {}
              /\ \A d \in Calls \ {c} : SentFor(c) \cap SentFor(d) = {}

\* the closures of two tools of one agent have each sent their frame, and
\* the one of the first tool waits registered
C35_Witness ==
    \E c, d \in Calls :
        /\ called[c] = << 1, 1 >> /\ called[d] = << 1, 2 >>
        /\ CalledTool(c).name # CalledTool(d).name
        /\ SentFor(c) # {} /\ SentFor(d) # {}
        /\ pc[c] = "select" /\ requestID[c] \in toolsQueue

\* verifyHMAC returned nil for call h
Verified(h) ==
    /\ hpc[h] \in {"fingerprint", "find", "createUser", "mint", "done"}
    /\ hverr[h] = ""

\* C36 as stated: a request whose nonce an earlier request recorded is
\* rejected by verifyHMAC, so no two requests with the same X-Nonce value
\* both pass it.
C36_NonceReplayRejected ==
    \A g, h \in Handshakes :
        (g # h /\ Verified(g) /\ Verified(h)) => hreq[g].nonce # hreq[h].nonce

\* the errors of verifyHMAC that reject the request itself
Rejections ==
    {"missing security headers", "invalid timestamp", "request expired",
     "invalid signature"}

\* the calls that verifyHMAC has not rejected
NotRejected == { h \in Handshakes : hpc[h] # "idle" /\ hverr[h] \notin Rejections }

\* C37 as stated: a request that verifyHMAC rejects creates no nonce row and
\* no user row: the rows of each table are at most as many as the requests
\* that were not rejected.
C37_RejectedRequestStoresNothing ==
    /\ Len(nonces) <= Cardinality(NotRejected)
    /\ Len(users) <= Cardinality(NotRejected)

\* C38 as stated: after any interleaving of DeviceHandshake calls the user
\* table has at most one row per fingerprint, and the successful calls for
\* one fingerprint were given the same user id.
C38_OneUserPerFingerprint ==
    /\ \A i, j \in 1..Len(users) : users[i] = users[j] => i = j
    /\ \A g, h \in Handshakes :
          ( /\ hres[g] = "ok" /\ hres[h] = "ok"
            /\ hreq[g].fingerprint = hreq[h].fingerprint )
          => huser[g] = huser[h]

\* the cache holds a non-empty response for k that has not expired
Fresh(k) ==
    /\ cache[k] # NoRow
    /\ cache[k].response # ""
    /\ cache[k].expires_at > clock

\* a step of call q from one place of classifyWithCache to another
Goes(q, from, to) == qpc[q] = from /\ qpc'[q] = to

\* a hit returns an unexpired entry's response without a model call
HitReturnsStored(q) ==
    (qpc[q] = "lookup" /\ qpc'[q] = "done") =>
        /\ cache[QueryKey(q)].expires_at > clock
        /\ qres'[q] = Answer("ok", cache[QueryKey(q)].response)
        /\ qgem'[q] = 0

\* a failed model call stores nothing and ends the call
FailedCallStoresNothing(q) ==
    (qpc[q] = "gemini" /\ qres'[q].kind = "error") =>
        (qpc'[q] = "done" /\ cache' = cache)

\* C39 as stated: whenever the cache holds a fresh non-empty entry for the
\* call's key the stored response is returned without a model call; no
\* entry that expires at or before the current time is returned; after a
\* miss the model's result is stored with expires_at = store time + 86400;
\* a failed model call stores nothing.
C39_CacheAsStated ==
    [][\A q \in Queries :
         /\ (qpc[q] = "lookup" /\ qpc'[q] # "lookup" /\ Fresh(QueryKey(q)))
               => qpc'[q] = "done"
         /\ HitReturnsStored(q)
         /\ Goes(q, "store", "done") => cache'[QueryKey(q)] = Row(qres[q].text, clock)
         /\ FailedCallStoresNothing(q)]_vars

\* C39, amended: the same with the two failures of the database left to the
\* code's fallbacks: a fresh entry is returned unless the query itself
\* failed, and after a miss the cache row becomes the model's result with
\* expires_at = store time + 86400 unless the save failed, which leaves it
\* as it was. Nothing but that save changes the cache.
C39_CacheUnlessDatabaseFails ==
    [][\A q \in Queries :
         /\ (qpc[q] = "lookup" /\ qpc'[q] # "lookup" /\ Fresh(QueryKey(q)) /\ ~qlerr'[q])
               => qpc'[q] = "done"
         /\ HitReturnsStored(q)
         /\ Goes(q, "store", "done")
               => cache'[QueryKey(q)] \in {cache[QueryKey(q)], Row(qres[q].text, clock)}
         /\ FailedCallStoresNothing(q)
         /\ (cache' # cache) => \E r \in Queries : Goes(r, "store", "done")]_vars

\* a call returned the response another call stored, without calling the
\* model, after the clock had advanced within the time to live
C39_Witness ==
    \E q, r \in Queries :
        /\ q # r
        /\ qpc[q] = "done" /\ qgem[q] = 0 /\ qres[q].kind = "ok"
        /\ qpc[r] = "done" /\ qgem[r] = 1
        /\ cache[QueryKey(q)].response = qres[q].text
        /\ clock > cache[QueryKey(q)].created_at

====
